---- MODULE Spec2Model ----
(***************************************************************************)
(* jennies4life-server: admin authentication gateway, admin-user           *)
(* management and the slug / publication rules of the content controllers. *)
(*                                                                         *)
(* Every HTTP request is an asynchronous task; the atomic steps of the     *)
(* model are the stretches of handler code between two awaited calls to    *)
(* the identity provider or to the document store.                         *)
(***************************************************************************)
EXTENDS Integers, Sequences, FiniteSets, TLC

\* ------------------------------------------------------------------ bounds
MaxTicks == 2          \* clock ticks taken by a behaviour
MaxAuthReq == 2        \* request slots going through authMiddleware / login
TokenTtlSec == 1       \* lifetime, in clock ticks, of a token the provider mints
MaxContentReq == 2     \* request slots of the content and redirect routes
MaxProducts == 2       \* products stored while requests interleave
MaxSeqDocs == 3        \* documents stored when creates run one at a time
MaxClicks == 1         \* redirects followed by a behaviour
MaxSeqClicks == 2      \* redirects followed when they run one at a time
MaxDeals == 2          \* deals stored

\* --------------------------------------------------------------- constants
MsPerSec == 1000       \* Math.floor(Date.now() / 1000)
StartMs == MsPerSec    \* Date.now() at start-up, in ms
TickMs == MsPerSec     \* one clock tick, in ms

VARIABLES
  auth,        \* services/firebase `auth` (and `db`): TRUE iff initialised
  adminEmail,  \* process.env.ADMIN_EMAIL ("" when unset)
  now,         \* Date.now()
  users,       \* identity-provider user records, by uid
  admins,      \* Firestore collection 'admins', by uid
  areq,        \* requests routed through authMiddleware or to login
  products,    \* Firestore collection 'products', by document id
  posts,       \* Firestore collection 'posts', by document id
  categories,  \* Firestore collection 'categories', by document id
  clicks,      \* Firestore collection 'clickEvents', in order of insertion
  deals,       \* Firestore collection 'deals', by document id
  creq         \* requests to the content and redirect routes

vars == <<auth, adminEmail, now, users, admins, areq,
          products, posts, categories, clicks, deals, creq>>
contentVars == <<products, posts, categories, clicks, deals, creq>>
authVars == <<adminEmail, users, admins, areq>>

\* ------------------------------------------------------------ identities
Uids == {"u1", "u2", "u3"}
GhostUid == "u9"                       \* a uid no user record has
Emails == {"a@x", "b@x", "c@x"}
UserEmail == [u \in Uids |-> CASE u = "u1" -> "a@x" [] u = "u2" -> "b@x" [] OTHER -> "c@x"]
UserClaim == [u \in Uids |-> u \in {"u1", "u2"}]   \* customClaims.admin
Passwords == {"pw", "bad"}
UserPassword == [u \in Uids |-> "pw"]

NowSec == now \div MsPerSec

\* ----------------------------------------------------------------- tokens
\* A header word.  raw is "jwt" for a string that decodes as a JWT, and the
\* remaining fields describe the JWT: who signed it and what its payload
\* carries.  For any other string only raw is meaningful.
Str(s) ==
  [raw |-> s, sig |-> "none", uid |-> "", sub |-> "", email |-> "",
   admin |-> FALSE, exp |-> 0]

\* ID token minted by the identity provider for user u: signed by the
\* provider, payload {sub, user_id, email, custom claims, exp}; no `uid`.
IdToken(u, e) ==
  [raw |-> "jwt", sig |-> "google", uid |-> "", sub |-> u,
   email |-> UserEmail[u], admin |-> UserClaim[u], exp |-> e]

\* auth.createCustomToken(uid, {admin: true, role: 'admin'}): signed by the
\* service account, payload {uid, claims, exp}.
CustomToken(u, e) ==
  [raw |-> "jwt", sig |-> "service", uid |-> u, sub |-> "", email |-> "",
   admin |-> TRUE, exp |-> e]

\* A JWT nobody signed; its payload is whatever the sender wrote.
ForgedToken(u, e) ==
  [raw |-> "jwt", sig |-> "none", uid |-> u, sub |-> u, email |-> "",
   admin |-> TRUE, exp |-> e]

\* exp (seconds) of the tokens minted at start-up
ExpSoon == (StartMs \div MsPerSec) + TokenTtlSec

Tokens ==
  {IdToken(u, ExpSoon) : u \in Uids}
    \cup {CustomToken(u, ExpSoon) : u \in {"u2", "u3"}}
    \cup {ForgedToken(u, 0) : u \in {"u2", GhostUid, ""}}
    \cup {ForgedToken("u2", ExpSoon), Str("garbage")}

\* ------------------------------------------------ identity-provider calls
\* auth.verifyIdToken(token) at provider time t.  fault: the provider cannot
\* be reached.  Result: ok with the decoded claims, or the thrown error's
\* code and whether its message names a custom token.
VerifyError(code, custom) ==
  [ok |-> FALSE, code |-> code, custom |-> custom,
   claims |-> [uid |-> "", email |-> "", admin |-> FALSE]]

verifyIdToken(tok, fault, t) ==
  IF fault THEN VerifyError("auth/internal-error", FALSE)
  ELSE IF tok.raw # "jwt" THEN VerifyError("auth/argument-error", FALSE)
  ELSE IF tok.sig = "service" THEN VerifyError("auth/argument-error", TRUE)
  ELSE IF tok.sig # "google" THEN VerifyError("auth/argument-error", FALSE)
  ELSE IF tok.exp <= t THEN VerifyError("auth/id-token-expired", FALSE)
  ELSE [ok |-> TRUE, code |-> "", custom |-> FALSE,
        claims |-> [uid |-> tok.sub, email |-> tok.email, admin |-> tok.admin]]

\* jwt.decode(token): the payload, unverified; null for a non-JWT string.
jwtDecode(tok) ==
  IF tok.raw = "jwt"
    THEN [isObject |-> TRUE, uid |-> tok.uid, exp |-> tok.exp]
    ELSE [isObject |-> FALSE, uid |-> "", exp |-> 0]

\* auth.getUser(uid) resolves iff the record exists.
UserExists(uid) == uid \in Uids /\ users[uid].exists

\* ---------------------------------------------------------- authMiddleware
NoUser == [uid |-> "", email |-> "", admin |-> FALSE]

\* `!auth`
AuthUnavailableNoGuard == FALSE
AuthUnavailable == ~auth

\* `!authHeader || !authHeader.startsWith('Bearer ')`; a header is the
\* sequence of its words, i.e. authHeader.split(' ').
HeaderRejectedPresenceOnly(h) == h = <<>>
HeaderRejected(h) == h = <<>> \/ ~(Len(h) >= 2 /\ h[1].raw = "Bearer")

\* `authHeader.split(' ')[1]` (undefined, like '', is falsy)
BearerToken(h) == IF Len(h) >= 2 THEN h[2] ELSE Str("")

\* The catch branch taken for an error that "indicates a custom token or an
\* expired token".
FallsBackToDecode(err) ==
  \/ err.code = "auth/argument-error"
  \/ err.code = "auth/id-token-expired"
  \/ err.custom

\* `!decoded || typeof decoded !== 'object' || !decoded.uid`
DecodedInvalid(d) == ~d.isObject \/ d.uid = ""

\* `!userRecord.customClaims || !userRecord.customClaims.admin`
LacksAdminClaim(uid) == ~users[uid].admin

\* `decoded.exp && decoded.exp < Math.floor(Date.now() / 1000)`
CustomExpired(d) == d.exp # 0 /\ d.exp < NowSec

\* `decodedToken.admin`, else `adminEmail && decodedToken.email === adminEmail`
AdminEligibleAnyone(dt) == TRUE
AdminEligible(dt) == dt.admin \/ (adminEmail # "" /\ dt.email = adminEmail)

\* ----------------------------------------------------------- request slots
AReqIds == 1 .. MaxAuthReq

\* A slot at rest: no request yet, or the previous request and its response.
\* header and fault are the request's Authorization header and whether the
\* identity provider was unreachable for it; uidParam, bodyName, bodyActive
\* are the path parameter and JSON body, known once the handler reads them.
Fresh ==
  [pc |-> "done", route |-> "", header |-> <<>>, fault |-> FALSE,
   decoded |-> jwtDecode(Str("")), hasUser |-> FALSE, user |-> NoUser,
   nextCalled |-> FALSE, status |-> 0, error |-> "", customToken |-> Str(""),
   uidParam |-> "", bodyName |-> "", bodyActive |-> "undef",
   email |-> "", password |-> "", inactiveSince |-> {}]

\* res.status(code).json({error, ...}); return
Respond(q, code, err) == [q EXCEPT !.pc = "done", !.status = code, !.error = err]

\* Tokens a client holds: the ones minted before start-up, forgeries, and
\* whatever login has answered.
IssuedByLogin ==
  {areq[q].customToken : q \in {x \in AReqIds : areq[x].customToken.raw = "jwt"}}

Headers ==
  {<<>>, <<Str("Bearer")>>, <<Str("Bearer"), Str("")>>,
   <<Str("Basic"), IdToken("u1", ExpSoon)>>}
    \cup {<<Str("Bearer"), t>> : t \in Tokens \cup IssuedByLogin}

GuardedRoutes == {"verify", "updateAdmin"}
AdminRoutes == {"updateAdmin", "deleteAdmin"}

\* Admin profiles whose deactivation is complete: profile inactive and
\* identity record disabled.
Deactivated == {u \in Uids : admins[u].exists /\ ~admins[u].isActive /\ users[u].disabled}

Tick ==
  /\ now < StartMs + MaxTicks * TickMs
  /\ now' = now + TickMs
  /\ UNCHANGED <<auth, adminEmail, users, admins, areq, contentVars>>

\* `req.user = {uid, email: decodedToken.email || '', ...decodedToken}; next()`
\* or the 403 of the admin check.
AdmitWithoutReturn(q, dt) ==
  [q EXCEPT !.hasUser = TRUE, !.user = dt, !.nextCalled = TRUE, !.pc = "next",
            !.decoded = Fresh.decoded,
            !.status = IF AdminEligible(dt) THEN 0 ELSE 403]
Admit(q, dt) ==
  IF ~AdminEligible(dt)
    THEN Respond(q, 403, "Forbidden")
    ELSE [q EXCEPT !.hasUser = TRUE, !.user = dt, !.nextCalled = TRUE, !.pc = "next",
                   !.decoded = Fresh.decoded]

\* authMiddleware on a request with header h, up to the return of
\* auth.verifyIdToken.
MwOutcome(q) ==
  LET h == q.header
      token == BearerToken(h)
      v == verifyIdToken(token, q.fault, NowSec)
      d == jwtDecode(token)
  IN IF AuthUnavailable THEN Respond(q, 503, "Service Unavailable")
     ELSE IF HeaderRejected(h) THEN Respond(q, 401, "Unauthorized")
     ELSE IF token.raw = "" THEN Respond(q, 401, "Unauthorized")
     ELSE IF v.ok THEN Admit(q, v.claims)
     ELSE IF ~FallsBackToDecode(v) THEN Respond(q, 401, "Unauthorized")
     ELSE IF DecodedInvalid(d) THEN Respond(q, 401, "Unauthorized")
     ELSE [q EXCEPT !.pc = "getUser", !.decoded = d]

\* A request arrives at a route mounted behind authMiddleware, which runs up
\* to the return of auth.verifyIdToken.
MwVerify(r) ==
  /\ areq[r].pc = "done"
  /\ \E h \in Headers, f \in BOOLEAN :
       /\ f => h = <<Str("Bearer"), IdToken("u1", ExpSoon)>>
       /\ areq' = [areq EXCEPT ![r] =
            MwOutcome([Fresh EXCEPT !.header = h, !.fault = f,
                                    !.inactiveSince = Deactivated])]
  /\ UNCHANGED <<auth, adminEmail, now, users, admins, contentVars>>

\* The fallback: from the return of auth.getUser(decoded.uid) on.
MwGetUser(r) ==
  /\ areq[r].pc = "getUser"
  /\ LET q == areq[r]
         d == q.decoded
     IN areq' = [areq EXCEPT ![r] =
          IF ~UserExists(d.uid) THEN Respond(q, 401, "Unauthorized")
          ELSE IF LacksAdminClaim(d.uid) THEN Respond(q, 403, "Forbidden")
          ELSE IF CustomExpired(d) THEN Respond(q, 401, "Token Expired")
          ELSE Admit(q, [uid |-> d.uid, email |-> users[d.uid].email, admin |-> TRUE])]
  /\ UNCHANGED <<auth, adminEmail, now, users, admins, contentVars>>

\* next(): the router enters the handler of the route the request is for.
\* No handler reads the Authorization header: the slot forgets it here.
DispatchTo(r, routes) ==
  /\ areq[r].pc = "next"
  /\ \E route \in routes :
       areq' = [areq EXCEPT ![r].route = route, ![r].pc = route,
                            ![r].header = <<>>, ![r].inactiveSince = {}]
  /\ UNCHANGED <<auth, adminEmail, now, users, admins, contentVars>>

Dispatch(r) == DispatchTo(r, GuardedRoutes)

\* GET /api/auth/verify
Verify(r) ==
  /\ areq[r].pc = "verify"
  /\ areq' = [areq EXCEPT ![r] = Respond(areq[r], 200, "")]
  /\ UNCHANGED <<auth, adminEmail, now, users, admins, contentVars>>

\* optionalAuthMiddleware of GET /api/deals: a request whose header starts
\* with 'Bearer ' goes through authMiddleware, any other request goes
\* straight to getDealsHandler with no identity attached.
OptionalMw(r) ==
  /\ areq[r].pc = "done"
  /\ \E h \in Headers, f \in BOOLEAN :
       /\ f => h = <<Str("Bearer"), IdToken("u1", ExpSoon)>>
       /\ LET q == [Fresh EXCEPT !.header = h, !.fault = f, !.inactiveSince = Deactivated]
          IN areq' = [areq EXCEPT ![r] =
               IF Len(h) >= 2 /\ h[1].raw = "Bearer"
                 THEN MwOutcome(q)
                 ELSE [q EXCEPT !.nextCalled = TRUE, !.pc = "deals", !.route = "deals"]]
  /\ UNCHANGED <<auth, adminEmail, now, users, admins, contentVars>>

\* getDealsHandler: getAllDeals for a request with a Bearer header,
\* getActiveDeals for any other; either answers 200.
GetDealsHandler(r) ==
  /\ areq[r].pc = "deals"
  /\ areq' = [areq EXCEPT ![r] = Respond(areq[r], 200, "")]
  /\ UNCHANGED <<auth, adminEmail, now, users, admins, contentVars>>

\* --------------------------------------------------------------- login
\* auth.getUserByEmail(email): the uids of the records with that email.
UsersByEmail(email) == {u \in Uids : users[u].exists /\ users[u].email = email}

\* auth.createCustomToken(uid, {admin: true, role: 'admin'})
createCustomToken(uid) == CustomToken(uid, NowSec + TokenTtlSec)

\* POST /api/auth/login.  Its one read of shared state is getUserByEmail.
Login(r) ==
  /\ areq[r].pc = "done"
  /\ \E email \in {"", "a@x", "c@x"}, password \in Passwords \cup {""} :
       LET q == [Fresh EXCEPT !.route = "login", !.email = email, !.password = password]
           found == UsersByEmail(email)
           u == CHOOSE x \in found : TRUE
       IN areq' = [areq EXCEPT ![r] =
            IF email = "" \/ password = "" THEN Respond(q, 400, "Validation Error")
            ELSE IF AuthUnavailable THEN Respond(q, 503, "Service Unavailable")
            ELSE IF adminEmail = "" \/ email # adminEmail THEN Respond(q, 403, "Forbidden")
            ELSE IF found = {} THEN Respond(q, 404, "User Not Found")
            ELSE IF LacksAdminClaim(u) THEN Respond(q, 403, "Forbidden")
            ELSE [q EXCEPT !.status = 200, !.customToken = createCustomToken(u)]]
  /\ UNCHANGED <<auth, adminEmail, now, users, admins, contentVars>>

\* --------------------------------------------------------- updateAdmin
\* PUT /api/admin/users/:uid with body {displayName?, isActive?}.
\* bodyName "" stands for an absent displayName, bodyActive "undef" for an
\* absent isActive.  The display name itself is not part of the state: the
\* call that writes it is kept as a step that can fail.
AfterLoad(q) ==
  IF q.bodyName # "" THEN "ua_name"
  ELSE IF q.bodyActive # "undef" THEN "ua_flag"
  ELSE "ua_store"

\* The values a JSON body can give isActive: absent ("undef"), true, false,
\* and "null" for a value that is falsy without being false (null, 0, "").
ActiveValues == {"undef", "true", "false", "null"}

\* `!isActive`
IsFalsy(v) == v \in {"false", "null"}

\* `isActive === false && uid === req.user?.uid`
SelfDeactivationUnguarded(q) == FALSE
SelfDeactivation(q) == q.bodyActive = "false" /\ q.uidParam = q.user.uid

\* Up to the return of db.collection('admins').doc(uid).get(), and the
\* checks that follow it.
UpdateAdminLoad(r) ==
  /\ areq[r].pc = "updateAdmin"
  /\ \E uid \in {"u2", GhostUid}, name \in {"", "Bob"}, active \in ActiveValues :
       /\ uid = GhostUid => (name = "" /\ active = "undef")
       /\ LET  q == [areq[r] EXCEPT !.uidParam = uid, !.bodyName = name, !.bodyActive = active]
          IN areq' = [areq EXCEPT ![r] =
               IF q.uidParam = "" THEN Respond(q, 400, "Validation Error")
               ELSE IF AuthUnavailable THEN Respond(q, 503, "Service Unavailable")
               ELSE IF ~(q.uidParam \in Uids /\ admins[q.uidParam].exists)
                 THEN Respond(q, 404, "Not Found")
               ELSE IF SelfDeactivation(q) THEN Respond(q, 400, "Validation Error")
               ELSE [q EXCEPT !.pc = AfterLoad(q)]]
  /\ UNCHANGED <<auth, adminEmail, now, users, admins, contentVars>>

\* `await auth.updateUser(uid, { displayName })`
UpdateAdminName(r) ==
  /\ areq[r].pc = "ua_name"
  /\ LET q == areq[r]
     IN areq' = [areq EXCEPT ![r] =
          IF ~UserExists(q.uidParam) THEN Respond(q, 500, "Internal Server Error")
          ELSE [q EXCEPT !.pc = IF q.bodyActive # "undef" THEN "ua_flag" ELSE "ua_store"]]
  /\ UNCHANGED <<auth, adminEmail, now, users, admins, contentVars>>

\* Requests that have seen uid deactivated ever since they arrived forget
\* it once uid is activated again.
Reactivated(rs, uid) ==
  [x \in AReqIds |-> [rs[x] EXCEPT !.inactiveSince = @ \ {uid}]]

\* `await auth.updateUser(uid, { disabled: !isActive })`
UpdateAdminFlag(r) ==
  /\ areq[r].pc = "ua_flag"
  /\ LET q == areq[r]
         disable == IsFalsy(q.bodyActive)
     IN IF ~UserExists(q.uidParam)
          THEN /\ areq' = [areq EXCEPT ![r] = Respond(q, 500, "Internal Server Error")]
               /\ UNCHANGED users
          ELSE /\ users' = [users EXCEPT ![q.uidParam].disabled = disable]
               /\ areq' = LET rs == [areq EXCEPT ![r].pc = "ua_store"]
                          IN IF disable THEN rs ELSE Reactivated(rs, q.uidParam)
  /\ UNCHANGED <<auth, adminEmail, now, admins, contentVars>>

\* `await db.collection('admins').doc(uid).update(updateData)`, the re-read
\* and the 200.
UpdateAdminStore(r) ==
  /\ areq[r].pc = "ua_store"
  /\ LET q == areq[r]
         doc == admins[q.uidParam]
     IN IF ~doc.exists
          THEN /\ areq' = [areq EXCEPT ![r] = Respond(q, 500, "Internal Server Error")]
               /\ UNCHANGED admins
          ELSE /\ admins' = [admins EXCEPT ![q.uidParam].isActive =
                    IF q.bodyActive = "undef" THEN @ ELSE ~IsFalsy(q.bodyActive)]
               /\ areq' = LET rs == [areq EXCEPT ![r] = Respond(q, 200, "")]
                          IN IF q.bodyActive = "true" THEN Reactivated(rs, q.uidParam) ELSE rs
  /\ UNCHANGED <<auth, adminEmail, now, users, contentVars>>

\* --------------------------------------------------------- deleteAdmin
\* `uid === req.user?.uid`
SelfDeletionUnguarded(q) == FALSE
SelfDeletion(q) == q.uidParam = q.user.uid

\* DELETE /api/admin/users/:uid, up to the return of
\* db.collection('admins').doc(uid).get()
DeleteAdminLoad(r) ==
  /\ areq[r].pc = "deleteAdmin"
  /\ \E uid \in {"u2", GhostUid} :
       LET q == [areq[r] EXCEPT !.uidParam = uid]
       IN areq' = [areq EXCEPT ![r] =
            IF q.uidParam = "" THEN Respond(q, 400, "Validation Error")
            ELSE IF AuthUnavailable THEN Respond(q, 503, "Service Unavailable")
            ELSE IF SelfDeletion(q) THEN Respond(q, 400, "Validation Error")
            ELSE IF ~(q.uidParam \in Uids /\ admins[q.uidParam].exists)
              THEN Respond(q, 404, "Not Found")
            ELSE [q EXCEPT !.pc = "da_user"]]
  /\ UNCHANGED <<auth, adminEmail, now, users, admins, contentVars>>

\* `await auth.deleteUser(uid)`
DeleteAdminUser(r) ==
  /\ areq[r].pc = "da_user"
  /\ LET q == areq[r]
     IN IF ~UserExists(q.uidParam)
          THEN /\ areq' = [areq EXCEPT ![r] = Respond(q, 500, "Internal Server Error")]
               /\ UNCHANGED users
          ELSE /\ users' = [users EXCEPT ![q.uidParam].exists = FALSE]
               /\ areq' = [areq EXCEPT ![r].pc = "da_doc"]
  /\ UNCHANGED <<auth, adminEmail, now, admins, contentVars>>

\* `await db.collection('admins').doc(uid).delete()` and the 200
DeleteAdminDoc(r) ==
  /\ areq[r].pc = "da_doc"
  /\ admins' = [admins EXCEPT ![areq[r].uidParam].exists = FALSE]
  /\ areq' = [areq EXCEPT ![r] = Respond(areq[r], 200, "")]
  /\ UNCHANGED <<auth, adminEmail, now, users, contentVars>>

\* --------------------------------------------------------- createAdmin
\* `await auth.getUserByEmail(email)` returns a record, whoever's it is.
EmailOfAnAdmin(email) == \E u \in UsersByEmail(email) : users[u].admin
EmailTaken(email) == UsersByEmail(email) # {}

\* POST /api/admin/users with body {email, password}, up to the return of
\* auth.getUserByEmail(email).
CreateAdminLoad(r) ==
  /\ areq[r].pc = "createAdmin"
  /\ \E email \in {"", "b@x", "c@x"}, password \in {"", "pw"} :
       LET q == [areq[r] EXCEPT !.email = email, !.password = password]
       IN areq' = [areq EXCEPT ![r] =
            IF email = "" \/ password = "" THEN Respond(q, 400, "Validation Error")
            ELSE IF AuthUnavailable THEN Respond(q, 503, "Service Unavailable")
            ELSE IF EmailTaken(email) THEN Respond(q, 409, "User Exists")
            ELSE [q EXCEPT !.pc = "ca_user"]]
  /\ UNCHANGED <<auth, adminEmail, now, users, admins, contentVars>>

\* `await auth.createUser({email, password, ...})`: the provider refuses an
\* email that has been taken in the meantime.
CreateAdminUser(r) ==
  /\ areq[r].pc = "ca_user"
  /\ LET q == areq[r]
         free == {u \in Uids : ~users[u].exists}
         uid == CHOOSE u \in free : TRUE
     IN IF UsersByEmail(q.email) # {} \/ free = {}
          THEN /\ areq' = [areq EXCEPT ![r] = Respond(q, 500, "Internal Server Error")]
               /\ UNCHANGED users
          ELSE /\ users' = [users EXCEPT ![uid] =
                    [exists |-> TRUE, email |-> q.email, admin |-> FALSE, disabled |-> FALSE]]
               /\ areq' = [areq EXCEPT ![r].pc = "ca_claims", ![r].uidParam = uid]
  /\ UNCHANGED <<auth, adminEmail, now, admins, contentVars>>

\* `await auth.setCustomUserClaims(userRecord.uid, {admin: true, ...})`
CreateAdminClaims(r) ==
  /\ areq[r].pc = "ca_claims"
  /\ LET q == areq[r]
     IN IF ~UserExists(q.uidParam)
          THEN /\ areq' = [areq EXCEPT ![r] = Respond(q, 500, "Internal Server Error")]
               /\ UNCHANGED users
          ELSE /\ users' = [users EXCEPT ![q.uidParam].admin = TRUE]
               /\ areq' = [areq EXCEPT ![r].pc = "ca_doc"]
  /\ UNCHANGED <<auth, adminEmail, now, admins, contentVars>>

\* `await db.collection('admins').doc(userRecord.uid).set(adminProfile)` and
\* the 201
CreateAdminDoc(r) ==
  /\ areq[r].pc = "ca_doc"
  /\ admins' = [admins EXCEPT ![areq[r].uidParam] = [exists |-> TRUE, isActive |-> TRUE]]
  /\ areq' = [areq EXCEPT ![r] = Respond(areq[r], 201, "")]
  /\ UNCHANGED <<auth, adminEmail, now, users, contentVars>>

\* ---------------------------------------------------- the auth subsystem
\* ======================================================== content store
\* Strings the slug rules look into are sequences of one-character strings.
DigitChars == <<"0", "1", "2", "3", "4", "5", "6", "7", "8", "9">>

\* String(n) for n >= 0, in decimal.
RECURSIVE NumToStr(_)
NumToStr(n) ==
  IF n < 10 THEN <<DigitChars[n + 1]>>
  ELSE NumToStr(n \div 10) \o <<DigitChars[(n % 10) + 1]>>

\* .toLowerCase(), over the letters the model uses
LowerChar(c) == CASE c = "A" -> "a" [] c = "B" -> "b" [] OTHER -> c
ToLower(s) == [i \in 1 .. Len(s) |-> LowerChar(s[i])]

IsSpace(c) == c = " "
\* \w
IsWordChar(c) ==
  c \in {"a", "b", "A", "B", "_"} \cup {DigitChars[i] : i \in 1 .. 10}

\* .trim()
RECURSIVE TrimLeft(_)
TrimLeft(s) == IF s # <<>> /\ IsSpace(Head(s)) THEN TrimLeft(Tail(s)) ELSE s
RECURSIVE TrimRight(_)
TrimRight(s) ==
  IF s # <<>> /\ IsSpace(s[Len(s)]) THEN TrimRight(SubSeq(s, 1, Len(s) - 1)) ELSE s
Trim(s) == TrimRight(TrimLeft(s))

\* .replace(/[^\w\s-]/g, '')
KeepsChar(c) == IsWordChar(c) \/ IsSpace(c) \/ c = "-"
RemoveSpecial(s) == SelectSeq(s, KeepsChar)

\* .replace(/[\s_-]+/g, '-')
IsSeparator(c) == IsSpace(c) \/ c = "_" \/ c = "-"
RECURSIVE CollapseSeparators(_)
CollapseSeparators(s) ==
  IF s = <<>> THEN <<>>
  ELSE IF IsSeparator(Head(s))
    THEN IF Tail(s) # <<>> /\ IsSeparator(Head(Tail(s)))
           THEN CollapseSeparators(Tail(s))
           ELSE <<"-">> \o CollapseSeparators(Tail(s))
    ELSE <<Head(s)>> \o CollapseSeparators(Tail(s))

\* .replace(/^-+|-+$/g, '')
RECURSIVE StripLeadingHyphens(_)
StripLeadingHyphens(s) ==
  IF s # <<>> /\ Head(s) = "-" THEN StripLeadingHyphens(Tail(s)) ELSE s
RECURSIVE StripTrailingHyphens(_)
StripTrailingHyphens(s) ==
  IF s # <<>> /\ s[Len(s)] = "-"
    THEN StripTrailingHyphens(SubSeq(s, 1, Len(s) - 1)) ELSE s

generateSlug(text) ==
  StripTrailingHyphens(StripLeadingHyphens(
    CollapseSeparators(RemoveSpecial(Trim(ToLower(text))))))

\* `${slug}-${Date.now()}`
WithTimestamp(slug, t) == slug \o <<"-">> \o NumToStr(t)

\* isSlugUnique(collection, slug, excludeId): excludeId 0 stands for none.
isSlugUniqueAmongAll(coll, slug, excludeId) == \A i \in DOMAIN coll : coll[i].slug # slug
isSlugUnique(coll, slug, excludeId) ==
  LET hits == {i \in DOMAIN coll : coll[i].slug = slug}
  IN IF hits = {} THEN TRUE
     ELSE IF excludeId # 0 THEN hits \ {excludeId} = {}
     ELSE FALSE

\* validateRequiredFields(data, requiredFields): the fields that are missing
\* ('' or undefined) or blank.
IsBlank(v) == Trim(v) = <<>>
validateRequiredFields(data, fields) == {f \in fields : IsBlank(data[f])}

\* isValidUrl(url): `new URL(url)` accepts absolute URLs only.  A URL is
\* the sequence of its scheme (when it has one) and the rest.
isValidUrl(url) == url # <<>> /\ url[1] = "https:"

\* --------------------------------------------------------- request bodies
NameA == <<"A", "!">>
NameLower == <<"a">>
Blank == <<" ">>
SlugA == <<"a">>
SlugLater == WithTimestamp(SlugA, StartMs + TickMs)
LinkOk == <<"https:", "//aff.com/1">>
LinkBad == <<"aff.com/1">>
Text == <<"x">>

Kinds == {"product", "post", "category"}

\* A JSON body.  A text field the body leaves out is <<>>; blank names the
\* fields the body carries as the empty string ''.
NoBody ==
  [name |-> <<>>, image |-> <<>>, description |-> <<>>, affiliateLink |-> <<>>,
   category |-> <<>>, title |-> <<>>, content |-> <<>>, coverImage |-> <<>>,
   slug |-> <<>>, status |-> "",
   originalPrice |-> <<>>, discountedPrice |-> <<>>, discountPercentage |-> <<>>,
   blank |-> {}]

\* CreateProductRequest / CreateBlogPostRequest / CreateCategoryRequest:
\* the well-formed bodies, one body with a blank required field and one
\* with a link that is not a URL
CreateBodies(kind) ==
  IF kind = "product" THEN
    LET good == {[NoBody EXCEPT !.name = NameA, !.image = LinkOk, !.description = Text,
                                !.affiliateLink = LinkOk, !.category = NameA,
                                !.slug = s, !.status = st] :
                   s \in {<<>>, SlugA}, st \in {"", "published"}}
        any == CHOOSE body \in good : body.slug = <<>> /\ body.status = ""
    IN good \cup {[any EXCEPT !.name = Blank], [any EXCEPT !.affiliateLink = LinkBad]}
  ELSE IF kind = "post" THEN
    LET good == {[NoBody EXCEPT !.title = NameA, !.content = Text, !.coverImage = LinkOk,
                                !.slug = s] : s \in {<<>>, SlugLater}}
        any == CHOOSE body \in good : body.slug = <<>>
    IN good \cup {[any EXCEPT !.title = Blank], [any EXCEPT !.coverImage = LinkBad]}
  ELSE
    {[NoBody EXCEPT !.name = n, !.slug = s] :
       n \in {NameA, NameLower, Blank}, s \in {<<>>, SlugLater}}

\* UpdateProductRequest
UpdateBodies ==
  LET good == {[NoBody EXCEPT !.slug = s, !.status = st] :
                 s \in {<<>>, SlugA}, st \in {"", "draft", "published"}}
  IN good \cup {[NoBody EXCEPT !.affiliateLink = LinkBad]}

\* update payloads that touch the affiliate link: left out, a URL, a text
\* that is no URL, and the empty string
LinkUpdateBodies ==
  {[NoBody EXCEPT !.affiliateLink = l, !.status = st] :
     l \in {<<>>, LinkOk, LinkBad}, st \in {"", "published"}}
    \cup {[NoBody EXCEPT !.blank = {"affiliateLink"}, !.status = st] :
            st \in {"", "published"}}

RequiredFields(kind) ==
  IF kind = "product" THEN {"name", "image", "description", "affiliateLink", "category"}
  ELSE IF kind = "post" THEN {"title", "content", "coverImage"}
  ELSE {"name"}

\* well-formed create bodies whose name or title needs every step of
\* generateSlug, without a slug or with one that is not a URL-safe text
NameMixed == <<" ", "_", "B", "-", "-", "b", "!", " ">>
SlugRaw == <<"B", " ">>
SlugBodies(kind) ==
  LET any == CHOOSE body \in CreateBodies(kind) :
               /\ validateRequiredFields(body, RequiredFields(kind)) = {}
               /\ body.slug = <<>>
               /\ body.status = ""
               /\ kind = "product" => isValidUrl(body.affiliateLink)
               /\ kind = "post" => isValidUrl(body.coverImage)
  IN {[any EXCEPT !.name = IF kind = "post" THEN @ ELSE n,
                  !.title = IF kind = "post" THEN n ELSE @,
                  !.slug = s] : n \in {NameA, NameMixed}, s \in {<<>>, SlugRaw}}

\* the text a slug is derived from: productData.name, postData.title,
\* categoryData.name
SlugSource(kind, body) == IF kind = "post" THEN body.title ELSE body.name

\* `data.slug || generateSlug(...)`
InitialSlug(kind, body) ==
  IF body.slug # <<>> THEN body.slug ELSE generateSlug(SlugSource(kind, body))

\* ------------------------------------------------------------ collections
Coll(kind) ==
  IF kind = "product" THEN products ELSE IF kind = "post" THEN posts ELSE categories

\* collection.add(doc): the store picks an id no document has
NewId(coll) == CHOOSE i \in 1 .. (Cardinality(DOMAIN coll) + 1) : i \notin DOMAIN coll
Added(coll, doc) ==
  [i \in DOMAIN coll \cup {NewId(coll)} |-> IF i \in DOMAIN coll THEN coll[i] ELSE doc]

Empty == [i \in {} |-> NoBody]

\* `status: data.status || 'draft'`
AlwaysDraft(st) == "draft"
StatusOrDraft(st) == IF st # "" THEN st ELSE "draft"

\* the documents createProduct / createPost / createCategory write (fields no
\* handler of the model reads are left out)
\* `const now = Timestamp.now()`, then `createdAt: now, updatedAt: now`;
\* lastClickedAt is 0 on a product that was never clicked (the field is absent)
ProductDoc(body, slug) ==
  [slug |-> slug, status |-> StatusOrDraft(body.status), category |-> body.category,
   affiliateLink |-> body.affiliateLink, clickCount |-> 0,
   createdAt |-> now, updatedAt |-> now, lastClickedAt |-> 0]
PostDocStampedTwice(body, slug) ==
  [slug |-> slug, status |-> StatusOrDraft(body.status),
   createdAt |-> now, updatedAt |-> now + TickMs]
PostDoc(body, slug) ==
  [slug |-> slug, status |-> StatusOrDraft(body.status),
   createdAt |-> now, updatedAt |-> now]

\* `{ id: docRef.id, ...doc }`
Entity(id, doc) == [id |-> id] @@ doc
CategoryDoc(body, slug) == [name |-> body.name, slug |-> slug]

\* docRef.update({...updateData, updatedAt}): fields present in the body
\* overwrite the stored ones, an affiliateLink of '' included
Merged(doc, body) ==
  [doc EXCEPT !.slug = IF body.slug # <<>> THEN body.slug ELSE @,
              !.status = IF body.status # "" THEN body.status ELSE @,
              !.affiliateLink = IF "affiliateLink" \in body.blank THEN <<>>
                                ELSE IF body.affiliateLink # <<>> THEN body.affiliateLink
                                ELSE @,
              !.updatedAt = now]

\* --------------------------------------------------------------- requests
CReqIds == 1 .. MaxContentReq

Idle ==
  [pc |-> "done", op |-> "", kind |-> "", id |-> 0, body |-> NoBody, slug |-> <<>>,
   isUnique |-> FALSE, name |-> <<>>, clickCount |-> 0,
   code |-> 0, error |-> "", data |-> {}, location |-> <<>>]

Reply(op, kind, code, err) ==
  [Idle EXCEPT !.op = op, !.kind = kind, !.code = code, !.error = err]

\* what a response carries of a product: {id: doc.id, ...doc.data()}
View(i) ==
  [id |-> i, slug |-> products[i].slug, status |-> products[i].status,
   affiliateLink |-> products[i].affiliateLink]

\* a category as the category handlers return it
Counted(id, name, n) == [id |-> id, name |-> name, productCount |-> n]

\* creates that passed the slug check and have not been written yet
Pending == {r \in CReqIds : creq[r].op = "create" /\ creq[r].pc # "done"}

\* documents stored or about to be
Stored == Cardinality(DOMAIN products) + Cardinality(DOMAIN posts)
            + Cardinality(DOMAIN categories) + Cardinality(Pending)

\* ---------------------------------------------------------------- creates
\* createProduct / createPost / createCategory, up to the awaited
\* isSlugUnique query.  The routes are mounted behind authMiddleware, so
\* the handler runs only where `auth` (and with it `db`) is initialised.
CreateCheckFrom(r, kind, room, bodies) ==
  /\ creq[r].pc = "done"
  /\ auth
  /\ room
  /\ \E body \in bodies :
       LET slug == InitialSlug(kind, body)
       IN creq' = [creq EXCEPT ![r] =
            IF validateRequiredFields(body, RequiredFields(kind)) # {}
              THEN Reply("create", kind, 400, "Missing required fields")
            ELSE IF kind = "product" /\ ~isValidUrl(body.affiliateLink)
              THEN Reply("create", kind, 400, "Invalid affiliate link URL")
            ELSE IF kind = "post" /\ ~isValidUrl(body.coverImage)
              THEN Reply("create", kind, 400, "Invalid cover image URL")
            ELSE [Idle EXCEPT !.pc = IF kind = "category" THEN "c_name" ELSE "c_add",
                              !.op = "create", !.kind = kind, !.body = body,
                              !.slug = slug,
                              !.isUnique = isSlugUnique(Coll(kind), slug, 0)]]
  /\ UNCHANGED <<auth, now, authVars, deals, products, posts, categories, clicks>>

CreateCheck(r, kind, room) == CreateCheckFrom(r, kind, room, CreateBodies(kind))

\* `if (!isUnique) slug = `${slug}-${Date.now()}``
Disambiguated(q) == IF q.isUnique THEN q.slug ELSE WithTimestamp(q.slug, now)

\* createCategory, from the answer of isSlugUnique to the awaited name query
CreateName(r) ==
  /\ creq[r].pc = "c_name"
  /\ LET q == creq[r]
     IN creq' = [creq EXCEPT ![r] =
          IF \E i \in DOMAIN categories : categories[i].name = q.body.name
            THEN Reply("create", q.kind, 400, "Category name already exists")
            ELSE [q EXCEPT !.pc = "c_add", !.slug = Disambiguated(q), !.isUnique = TRUE]]
  /\ UNCHANGED <<auth, now, authVars, deals, products, posts, categories, clicks>>

\* the rest of the create: the document is built and collection.add lands
CreateAdd(r) ==
  /\ creq[r].pc = "c_add"
  /\ LET q == creq[r]
         slug == Disambiguated(q)
     IN /\ products' = IF q.kind = "product"
                         THEN Added(products, ProductDoc(q.body, slug)) ELSE products
        /\ posts' = IF q.kind = "post"
                      THEN Added(posts, PostDoc(q.body, slug)) ELSE posts
        /\ categories' = IF q.kind = "category"
                           THEN Added(categories, CategoryDoc(q.body, slug)) ELSE categories
        /\ creq' = [creq EXCEPT ![r] =
             [Reply("create", q.kind, 201, "") EXCEPT
                !.id = NewId(Coll(q.kind)),
                !.body = q.body,
                !.slug = slug,
                !.data = IF q.kind = "category"
                           THEN {Counted(NewId(categories), q.body.name, 0)}
                         ELSE IF q.kind = "product"
                           THEN {Entity(NewId(products), ProductDoc(q.body, slug))}
                           ELSE {Entity(NewId(posts), PostDoc(q.body, slug))}]]
  /\ UNCHANGED <<auth, now, authVars, deals, clicks>>

\* ---------------------------------------------------------- updateProduct
\* up to the awaited docRef.get() and the link validation
UpdateLoadFrom(r, bodies) ==
  /\ creq[r].pc = "done"
  /\ auth
  /\ \E id \in 1 .. MaxProducts, body \in bodies :
       creq' = [creq EXCEPT ![r] =
         IF id \notin DOMAIN products
           THEN Reply("update", "product", 404, "Product not found")
         ELSE IF body.affiliateLink # <<>> /\ ~isValidUrl(body.affiliateLink)
           THEN Reply("update", "product", 400, "Invalid affiliate link URL")
         ELSE [Idle EXCEPT !.pc = IF body.slug # <<>> THEN "u_check" ELSE "u_write",
                           !.op = "update", !.kind = "product", !.id = id,
                           !.body = body]]
  /\ UNCHANGED <<auth, now, authVars, deals, products, posts, categories, clicks>>

UpdateLoad(r) == UpdateLoadFrom(r, UpdateBodies)

\* `if (updateData.slug)`: the awaited isSlugUnique(collection, slug, id)
UpdateCheck(r) ==
  /\ creq[r].pc = "u_check"
  /\ LET q == creq[r]
     IN creq' = [creq EXCEPT ![r] =
          IF ~isSlugUnique(products, q.body.slug, q.id)
            THEN Reply("update", "product", 400, "Slug already exists")
            ELSE [q EXCEPT !.pc = "u_write", !.isUnique = TRUE]]
  /\ UNCHANGED <<auth, now, authVars, deals, products, posts, categories, clicks>>

\* docRef.update(updatedData), then the document is read back and returned
UpdateWrite(r) ==
  /\ creq[r].pc = "u_write"
  /\ LET q == creq[r]
     IN IF q.id \in DOMAIN products
          THEN /\ products' = [products EXCEPT ![q.id] = Merged(@, q.body)]
               /\ creq' = [creq EXCEPT ![r] = Reply("update", "product", 200, "")]
          ELSE /\ creq' = [creq EXCEPT ![r] =
                    Reply("update", "product", 500, "Failed to update product")]
               /\ UNCHANGED products
  /\ UNCHANGED <<auth, now, authVars, deals, posts, categories, clicks>>

\* ------------------------------------------------------------- updatePost
PostUpdateBodies ==
  {[NoBody EXCEPT !.slug = s, !.status = st] : s \in {<<>>, SlugA}, st \in {"", "published"}}
    \cup {[NoBody EXCEPT !.coverImage = LinkBad]}

MergedPost(doc, body) ==
  [doc EXCEPT !.slug = IF body.slug # <<>> THEN body.slug ELSE @,
              !.status = IF body.status # "" THEN body.status ELSE @,
              !.updatedAt = now]

\* up to the awaited docRef.get() and the cover image validation
UpdatePostLoad(r) ==
  /\ creq[r].pc = "done"
  /\ auth
  /\ \E id \in 1 .. MaxProducts, body \in PostUpdateBodies :
       creq' = [creq EXCEPT ![r] =
         IF id \notin DOMAIN posts
           THEN Reply("update", "post", 404, "Post not found")
         ELSE IF body.coverImage # <<>> /\ ~isValidUrl(body.coverImage)
           THEN Reply("update", "post", 400, "Invalid cover image URL")
         ELSE [Idle EXCEPT !.pc = IF body.slug # <<>> THEN "up_check" ELSE "up_write",
                           !.op = "update", !.kind = "post", !.id = id,
                           !.body = body]]
  /\ UNCHANGED <<auth, now, authVars, deals, products, posts, categories, clicks>>

\* `if (updateData.slug)`: the awaited isSlugUnique(collection, slug, id)
UpdatePostCheck(r) ==
  /\ creq[r].pc = "up_check"
  /\ LET q == creq[r]
     IN creq' = [creq EXCEPT ![r] =
          IF ~isSlugUnique(posts, q.body.slug, q.id)
            THEN Reply("update", "post", 400, "Slug already exists")
            ELSE [q EXCEPT !.pc = "up_write", !.isUnique = TRUE]]
  /\ UNCHANGED <<auth, now, authVars, deals, products, posts, categories, clicks>>

\* docRef.update(updatedData), then the document is read back and returned
UpdatePostWrite(r) ==
  /\ creq[r].pc = "up_write"
  /\ LET q == creq[r]
     IN IF q.id \in DOMAIN posts
          THEN /\ posts' = [posts EXCEPT ![q.id] = MergedPost(@, q.body)]
               /\ creq' = [creq EXCEPT ![r] = Reply("update", "post", 200, "")]
          ELSE /\ creq' = [creq EXCEPT ![r] =
                    Reply("update", "post", 500, "Failed to update post")]
               /\ UNCHANGED posts
  /\ UNCHANGED <<auth, now, authVars, deals, products, categories, clicks>>

\* ----------------------------------------------------------- public reads
ReadSlugs == {SlugA, SlugLater}

\* .where('status', '==', 'published')
IsAnyStatus(doc) == TRUE
IsPublished(doc) == doc.status = "published"

\* .where('slug', '==', slug).where('status', '==', 'published')
PublishedBySlug(slug) ==
  {i \in DOMAIN products : products[i].slug = slug /\ IsPublished(products[i])}

\* .where('category', '==', name).where('status', '==', 'published')
PublishedInCategory(name) ==
  {i \in DOMAIN products : products[i].category = name /\ IsPublished(products[i])}

\* getPublishedProducts
ListProducts(r) ==
  /\ creq[r].pc = "done"
  /\ creq' = [creq EXCEPT ![r] =
       IF ~auth THEN Reply("list", "product", 500, "Failed to fetch products")
       ELSE [Reply("list", "product", 200, "") EXCEPT
               !.data = {View(i) : i \in {j \in DOMAIN products : IsPublished(products[j])}}]]
  /\ UNCHANGED <<auth, now, authVars, deals, products, posts, categories, clicks>>

\* getProductBySlug: `.limit(1)` hands back any one of the matches
GetProductBySlugIn(r, slugs) ==
  /\ creq[r].pc = "done"
  /\ \E slug \in slugs :
       IF ~auth
         THEN creq' = [creq EXCEPT ![r] =
                Reply("bySlug", "product", 500, "Failed to fetch product")]
       ELSE IF PublishedBySlug(slug) = {}
         THEN creq' = [creq EXCEPT ![r] =
                [Reply("bySlug", "product", 404, "Product not found") EXCEPT !.slug = slug]]
       ELSE \E i \in PublishedBySlug(slug) :
              creq' = [creq EXCEPT ![r] =
                [Reply("bySlug", "product", 200, "") EXCEPT !.slug = slug, !.data = {View(i)}]]
  /\ UNCHANGED <<auth, now, authVars, deals, products, posts, categories, clicks>>

GetProductBySlug(r) == GetProductBySlugIn(r, ReadSlugs)

\* getPublishedPosts
ListPosts(r) ==
  /\ creq[r].pc = "done"
  /\ creq' = [creq EXCEPT ![r] =
       IF ~auth THEN Reply("list", "post", 500, "Failed to fetch posts")
       ELSE [Reply("list", "post", 200, "") EXCEPT
               !.data = {Entity(i, posts[i]) : i \in {j \in DOMAIN posts : IsPublished(posts[j])}}]]
  /\ UNCHANGED <<auth, now, authVars, deals, products, posts, categories, clicks>>

\* getPostBySlug
GetPostBySlug(r) ==
  /\ creq[r].pc = "done"
  /\ \E slug \in ReadSlugs \cup {posts[i].slug : i \in DOMAIN posts} :
       LET hits == {i \in DOMAIN posts : posts[i].slug = slug /\ IsPublished(posts[i])}
       IN IF ~auth
            THEN creq' = [creq EXCEPT ![r] =
                   Reply("bySlug", "post", 500, "Failed to fetch post")]
          ELSE IF hits = {}
            THEN creq' = [creq EXCEPT ![r] =
                   [Reply("bySlug", "post", 404, "Post not found") EXCEPT !.slug = slug]]
          ELSE \E i \in hits :
                 creq' = [creq EXCEPT ![r] =
                   [Reply("bySlug", "post", 200, "") EXCEPT
                      !.slug = slug, !.data = {Entity(i, posts[i])}]]
  /\ UNCHANGED <<auth, now, authVars, deals, products, posts, categories, clicks>>

\* getProductsByCategory, up to the awaited category query
CategoryFind(r) ==
  /\ creq[r].pc = "done"
  /\ \E slug \in ReadSlugs :
       LET hits == {i \in DOMAIN categories : categories[i].slug = slug}
       IN IF ~auth
            THEN creq' = [creq EXCEPT ![r] =
                   Reply("byCategory", "product", 503, "Service Unavailable")]
          ELSE IF hits = {}
            THEN creq' = [creq EXCEPT ![r] =
                   Reply("byCategory", "product", 404, "Category not found")]
          ELSE \E i \in hits :
                 creq' = [creq EXCEPT ![r] =
                   [Idle EXCEPT !.pc = "cat_products", !.op = "byCategory",
                                !.kind = "product", !.name = categories[i].name]]
  /\ UNCHANGED <<auth, now, authVars, deals, products, posts, categories, clicks>>

\* getProductsByCategory: the awaited products query and the response
CategoryProducts(r) ==
  /\ creq[r].pc = "cat_products"
  /\ creq' = [creq EXCEPT ![r] =
       [Reply("byCategory", "product", 200, "") EXCEPT
          !.data = {View(i) : i \in PublishedInCategory(creq[r].name)}]]
  /\ UNCHANGED <<auth, now, authVars, deals, products, posts, categories, clicks>>

\* --------------------------------------------------------------- redirect
\* redirects that have been admitted and will write a click event
Clicking == {r \in CReqIds : creq[r].pc = "r_click"}

\* redirectToAffiliate, up to the awaited product query
RedirectFindUpTo(r, cap) ==
  /\ creq[r].pc = "done"
  /\ Len(clicks) + Cardinality(Clicking) < cap
  /\ \E slug \in ReadSlugs :
       IF ~auth
         THEN creq' = [creq EXCEPT ![r] =
                Reply("redirect", "product", 500, "Internal server error during redirect")]
       ELSE IF PublishedBySlug(slug) = {}
         THEN creq' = [creq EXCEPT ![r] =
                [Reply("redirect", "product", 404, "Product not found or not published")
                   EXCEPT !.slug = slug]]
       ELSE \E i \in PublishedBySlug(slug) :
              creq' = [creq EXCEPT ![r] =
                IF products[i].affiliateLink = <<>>
                  THEN Reply("redirect", "product", 400,
                             "Affiliate link not available for this product")
                  ELSE [Idle EXCEPT !.pc = "r_click", !.op = "redirect",
                                    !.kind = "product", !.slug = slug,
                                    !.id = i, !.data = {View(i)},
                                    !.clickCount = products[i].clickCount]]
  /\ UNCHANGED <<auth, now, authVars, deals, products, posts, categories, clicks>>

RedirectFind(r) == RedirectFindUpTo(r, MaxClicks)

\* clickEventsCollection.add(clickEvent)
LoggedAlone(events, ev) == <<ev>>
Logged(events, ev) == Append(events, ev)

RedirectClick(r) ==
  /\ creq[r].pc = "r_click"
  /\ clicks' = Logged(clicks, [productId |-> creq[r].id, productSlug |-> creq[r].slug])
  /\ creq' = [creq EXCEPT ![r].pc = "r_count"]
  /\ UNCHANGED <<auth, now, authVars, deals, products, posts, categories>>

\* `clickCount: currentClickCount + 1`
ClickCountKept(count) == count
NextClickCount(count) == count + 1

\* doc.ref.update({clickCount: currentClickCount + 1, ...}); res.redirect(302, link)
\* doc.ref.update({clickCount, lastClickedAt, updatedAt})
ClickedAndDrafted(doc, count) ==
  [doc EXCEPT !.clickCount = NextClickCount(count), !.lastClickedAt = now,
              !.updatedAt = now, !.status = "draft"]
Clicked(doc, count) ==
  [doc EXCEPT !.clickCount = NextClickCount(count), !.lastClickedAt = now,
              !.updatedAt = now]

RedirectCount(r) ==
  /\ creq[r].pc = "r_count"
  /\ LET q == creq[r]
         product == CHOOSE v \in q.data : TRUE
     IN IF q.id \in DOMAIN products
          THEN /\ products' = [products EXCEPT ![q.id] = Clicked(@, q.clickCount)]
               /\ creq' = [creq EXCEPT ![r] =
                    [Reply("redirect", "product", 302, "") EXCEPT
                       !.data = q.data, !.location = product.affiliateLink]]
          ELSE /\ creq' = [creq EXCEPT ![r] =
                    Reply("redirect", "product", 500, "Internal server error during redirect")]
               /\ UNCHANGED products
  /\ UNCHANGED <<auth, now, authVars, deals, posts, categories, clicks>>

\* -------------------------------------------------------------- analytics
\* getProductClickAnalytics (behind authMiddleware), up to the awaited
\* product query: by slug, whatever the status, `.limit(1)`
AnalyticsFind(r) ==
  /\ creq[r].pc = "done"
  /\ auth
  /\ \E slug \in ReadSlugs :
       LET hits == {i \in DOMAIN products : products[i].slug = slug}
       IN IF hits = {}
            THEN creq' = [creq EXCEPT ![r] =
                   [Reply("analytics", "product", 404, "Product not found") EXCEPT !.slug = slug]]
            ELSE \E i \in hits :
                   creq' = [creq EXCEPT ![r] =
                     [Idle EXCEPT !.pc = "an_clicks", !.op = "analytics", !.kind = "product",
                                  !.slug = slug, !.id = i,
                                  !.clickCount = products[i].clickCount]]
  /\ UNCHANGED <<auth, now, authVars, deals, products, posts, categories, clicks>>

\* .where('productId', '==', product.id): the click events of a product
ClicksOf(i) == SelectSeq(clicks, LAMBDA ev : ev.productId = i)

\* getProductClickAnalytics: the awaited click query and the response,
\* totalClicks: product.clickCount || 0
AnalyticsClicks(r) ==
  /\ creq[r].pc = "an_clicks"
  /\ creq' = [creq EXCEPT ![r] =
       [Reply("analytics", "product", 200, "") EXCEPT
          !.slug = creq[r].slug, !.id = creq[r].id, !.clickCount = creq[r].clickCount,
          !.data = {[recentClicks |-> Len(ClicksOf(creq[r].id))]}]]
  /\ UNCHANGED <<auth, now, authVars, deals, products, posts, categories, clicks>>

\* ------------------------------------------------------- category reads
\* productSnapshot.size of the products query of the category handlers
CountOf(name, admin) ==
  Cardinality({i \in DOMAIN products :
                 /\ products[i].category = name
                 /\ admin \/ products[i].status = "published"})

WithAdminCount == {"listAllCategories"}

\* getCategoryBySlug, up to the awaited category query
CategoryGet(r) ==
  /\ creq[r].pc = "done"
  /\ \E slug \in ReadSlugs :
       LET hits == {i \in DOMAIN categories : categories[i].slug = slug}
       IN IF ~auth
            THEN creq' = [creq EXCEPT ![r] =
                   Reply("getCategory", "category", 503, "Service Unavailable")]
          ELSE IF hits = {}
            THEN creq' = [creq EXCEPT ![r] =
                   Reply("getCategory", "category", 404, "Category not found")]
          ELSE \E i \in hits :
                 creq' = [creq EXCEPT ![r] =
                   [Idle EXCEPT !.pc = "cats_count", !.op = "getCategory",
                                !.kind = "category",
                                !.data = {Counted(i, categories[i].name, -1)}]]
  /\ UNCHANGED <<auth, now, authVars, deals, products, posts, categories, clicks>>

\* getCategories (public) and getAllCategories (admin), up to the awaited
\* categories query; a productCount of -1 marks a document of the snapshot
\* the loop has not reached yet
CategoriesList(r, admin) ==
  /\ creq[r].pc = "done"
  /\ LET op == IF admin THEN "listAllCategories" ELSE "listCategories"
         docs == {Counted(i, categories[i].name, -1) : i \in DOMAIN categories}
     IN creq' = [creq EXCEPT ![r] =
          IF ~auth THEN Reply(op, "category", 503, "Service Unavailable")
          ELSE IF docs = {} THEN Reply(op, "category", 200, "")
          ELSE [Idle EXCEPT !.pc = "cats_count", !.op = op,
                            !.kind = "category", !.data = docs]]
  /\ UNCHANGED <<auth, now, authVars, deals, products, posts, categories, clicks>>

\* one awaited products query of the loop (the only one of getCategoryBySlug);
\* the response follows the last one. The loop takes the documents in name
\* order; any order is allowed here.
CategoriesCount(r) ==
  /\ creq[r].pc = "cats_count"
  /\ \E e \in {d \in creq[r].data : d.productCount = -1} :
       LET n == CountOf(e.name, creq[r].op \in WithAdminCount)
           data == (creq[r].data \ {e}) \cup {Counted(e.id, e.name, n)}
       IN creq' = [creq EXCEPT ![r] =
            IF \E d \in data : d.productCount = -1
              THEN [creq[r] EXCEPT !.data = data]
              ELSE [Reply(creq[r].op, "category", 200, "") EXCEPT !.data = data]]
  /\ UNCHANGED <<auth, now, authVars, deals, products, posts, categories, clicks>>

\* ------------------------------------------------------------------ deals
\* A price or a percentage of a payload is <<>> when the field is absent and
\* <<n>> when it carries the number n.
Truthy(field) == field # <<>> /\ field[1] # 0

\* Math.round(((originalPrice - discountedPrice) / originalPrice) * 100),
\* for originalPrice > 0; Math.round rounds halves up
Rounded(original, discounted) ==
  (200 * (original - discounted) + original) \div (2 * original)

\* the payloads of createDeal and updateDeal, the other fields being valid
DealBodies ==
  {[NoBody EXCEPT !.originalPrice = o, !.discountedPrice = d, !.discountPercentage = p] :
     o \in {<<>>, <<0>>, <<3>>, <<8>>}, d \in {<<>>, <<0>>, <<1>>}, p \in {<<>>, <<5>>}}

DealDoc(body) ==
  [originalPrice |-> body.originalPrice[1],
   discountedPrice |-> body.discountedPrice[1],
   discountPercentage |-> Rounded(body.originalPrice[1], body.discountedPrice[1]),
   isActive |-> TRUE]

\* createDeal: validation, dealsCollection.add and the response
CreateDeal(r) ==
  /\ creq[r].pc = "done"
  /\ Cardinality(DOMAIN deals) < MaxDeals
  /\ \E body \in DealBodies :
       IF ~Truthy(body.originalPrice) \/ ~Truthy(body.discountedPrice)
         THEN /\ creq' = [creq EXCEPT ![r] =
                   Reply("createDeal", "deal", 400, "Missing required fields")]
              /\ UNCHANGED deals
         ELSE /\ deals' = Added(deals, DealDoc(body))
              /\ creq' = [creq EXCEPT ![r] =
                   [Reply("createDeal", "deal", 201, "") EXCEPT
                      !.id = NewId(deals), !.body = body]]
  /\ UNCHANGED <<auth, now, authVars, products, posts, categories, clicks>>

\* getActiveDeals, behind GET /api/deals/public and behind GET /api/deals
\* when the request has no Bearer header: `const deals: Deal[] = []` is
\* answered as it is, the collection is not read.
GetActiveDeals(r) ==
  /\ creq[r].pc = "done"
  /\ \E route \in {"public", "hybrid"} :
       creq' = [creq EXCEPT ![r] = [Reply("activeDeals", "deal", 200, "") EXCEPT !.data = {}]]
  /\ UNCHANGED <<auth, now, authVars, deals, products, posts, categories, clicks>>

\* getDealById
GetDealById(r) ==
  /\ creq[r].pc = "done"
  /\ \E id \in 1 .. MaxDeals :
       creq' = [creq EXCEPT ![r] =
         IF id \notin DOMAIN deals
           THEN [Reply("getDeal", "deal", 404, "Deal not found") EXCEPT !.id = id]
           ELSE [Reply("getDeal", "deal", 200, "") EXCEPT
                   !.id = id,
                   !.data = {[id |-> id,
                              originalPrice |-> deals[id].originalPrice,
                              discountedPrice |-> deals[id].discountedPrice,
                              discountPercentage |-> deals[id].discountPercentage]}]]
  /\ UNCHANGED <<auth, now, authVars, deals, products, posts, categories, clicks>>

\* updateDeal, up to the awaited doc(id).get()
UpdateDealLoad(r) ==
  /\ creq[r].pc = "done"
  /\ \E id \in 1 .. MaxDeals, body \in DealBodies :
       creq' = [creq EXCEPT ![r] =
         IF id \notin DOMAIN deals
           THEN Reply("updateDeal", "deal", 404, "Deal not found")
           ELSE [Idle EXCEPT !.pc = "ud_write", !.op = "updateDeal", !.kind = "deal",
                             !.id = id, !.body = body]]
  /\ UNCHANGED <<auth, now, authVars, deals, products, posts, categories, clicks>>

\* the percentage updateDeal puts into the update payload, <<>> for none
UpdatedPercentage(body) ==
  IF Truthy(body.originalPrice) /\ Truthy(body.discountedPrice)
    THEN <<Rounded(body.originalPrice[1], body.discountedPrice[1])>>
    ELSE body.discountPercentage

\* updateDeal: the percentage, doc(id).update(updatePayload) and the response
UpdateDealWrite(r) ==
  /\ creq[r].pc = "ud_write"
  /\ LET q == creq[r]
         pct == UpdatedPercentage(q.body)
     IN /\ deals' = IF q.id \in DOMAIN deals
                      THEN [deals EXCEPT ![q.id] =
                             [@ EXCEPT
                                !.originalPrice =
                                  IF q.body.originalPrice # <<>> THEN q.body.originalPrice[1] ELSE @,
                                !.discountedPrice =
                                  IF q.body.discountedPrice # <<>> THEN q.body.discountedPrice[1] ELSE @,
                                !.discountPercentage = IF pct # <<>> THEN pct[1] ELSE @]]
                      ELSE deals
        /\ creq' = [creq EXCEPT ![r] =
             [Reply("updateDeal", "deal", 200, "") EXCEPT !.id = q.id, !.body = q.body]]
  /\ UNCHANGED <<auth, now, authVars, products, posts, categories, clicks>>

\* ---------------------------------------------------------- deleteProduct
Removed(coll, id) == [i \in DOMAIN coll \ {id} |-> coll[i]]

\* up to the awaited docRef.get()
DeleteProductLoad(r) ==
  /\ creq[r].pc = "done"
  /\ auth
  /\ \E id \in 1 .. MaxProducts :
       creq' = [creq EXCEPT ![r] =
         IF id \notin DOMAIN products
           THEN Reply("deleteProduct", "product", 404, "Product not found")
           ELSE [Idle EXCEPT !.pc = "dp_write", !.op = "deleteProduct",
                             !.kind = "product", !.id = id]]
  /\ UNCHANGED <<auth, now, authVars, deals, products, posts, categories, clicks>>

\* docRef.delete() and the response
DeleteProductWrite(r) ==
  /\ creq[r].pc = "dp_write"
  /\ products' = Removed(products, creq[r].id)
  /\ creq' = [creq EXCEPT ![r] = Reply("deleteProduct", "product", 200, "")]
  /\ UNCHANGED <<auth, now, authVars, deals, posts, categories, clicks>>

\* --------------------------------------------------------- deleteCategory
\* .where('category', '==', categoryData.name).limit(1): not empty
ReferencedWhenPublished(name) ==
  \E i \in DOMAIN products : products[i].category = name /\ IsPublished(products[i])
Referenced(name) == \E i \in DOMAIN products : products[i].category = name

\* up to the awaited docRef.get()
DeleteCategoryLoad(r) ==
  /\ creq[r].pc = "done"
  /\ auth
  /\ \E id \in 1 .. MaxProducts :
       creq' = [creq EXCEPT ![r] =
         IF id \notin DOMAIN categories
           THEN Reply("deleteCategory", "category", 404, "Category not found")
           ELSE [Idle EXCEPT !.pc = "dc_check", !.op = "deleteCategory",
                             !.kind = "category", !.id = id,
                             !.name = categories[id].name]]
  /\ UNCHANGED <<auth, now, authVars, deals, products, posts, categories, clicks>>

\* the awaited products query
DeleteCategoryCheck(r) ==
  /\ creq[r].pc = "dc_check"
  /\ creq' = [creq EXCEPT ![r] =
       IF Referenced(creq[r].name)
         THEN Reply("deleteCategory", "category", 400,
                    "Cannot delete category with existing products")
         ELSE [creq[r] EXCEPT !.pc = "dc_write"]]
  /\ UNCHANGED <<auth, now, authVars, deals, products, posts, categories, clicks>>

\* docRef.delete() and the response
DeleteCategoryWrite(r) ==
  /\ creq[r].pc = "dc_write"
  /\ categories' = Removed(categories, creq[r].id)
  /\ creq' = [creq EXCEPT ![r] =
       [Reply("deleteCategory", "category", 200, "") EXCEPT !.id = creq[r].id]]
  /\ UNCHANGED <<auth, now, authVars, deals, products, posts, clicks>>

\* ========================================================== specifications
NoContent ==
  /\ products = Empty
  /\ posts = Empty
  /\ categories = Empty
  /\ clicks = <<>>
  /\ deals = Empty
  /\ creq = [r \in CReqIds |-> Idle]

AuthInit ==
  /\ auth \in BOOLEAN
  /\ adminEmail \in {"", "a@x", "c@x"}
  /\ now = StartMs
  /\ users = [u \in Uids |->
       [exists |-> TRUE, email |-> UserEmail[u], admin |-> UserClaim[u], disabled |-> FALSE]]
  /\ admins = [u \in Uids |-> [exists |-> UserClaim[u], isActive |-> TRUE]]
  /\ areq = [r \in AReqIds |-> Fresh]
  /\ NoContent

AuthNext ==
  \/ Tick
  \/ \E r \in AReqIds :
       \/ MwVerify(r)
       \/ MwGetUser(r)
       \/ Dispatch(r)
       \/ Verify(r)
       \/ Login(r)
       \/ UpdateAdminLoad(r)
       \/ UpdateAdminName(r)
       \/ UpdateAdminFlag(r)
       \/ UpdateAdminStore(r)

AuthSpec == AuthInit /\ [][AuthNext]_vars

\* authMiddleware in front of a guarded route and inside the
\* optionalAuthMiddleware of the deals route.
MwNext ==
  \/ Tick
  \/ \E r \in AReqIds :
       \/ MwVerify(r)
       \/ MwGetUser(r)
       \/ OptionalMw(r)
       \/ DispatchTo(r, {"verify", "deals"})
       \/ Verify(r)
       \/ GetDealsHandler(r)

MwSpec == AuthInit /\ [][MwNext]_vars

\* The identity side at rest: the content routes are taken from the point
\* where authMiddleware has called next().
AuthAtRest ==
  /\ adminEmail = "a@x"
  /\ users = [u \in Uids |->
       [exists |-> TRUE, email |-> UserEmail[u], admin |-> UserClaim[u], disabled |-> FALSE]]
  /\ admins = [u \in Uids |-> [exists |-> UserClaim[u], isActive |-> TRUE]]
  /\ areq = [r \in AReqIds |-> Fresh]

\* Admin management: the routes of /api/admin/users behind authMiddleware,
\* with the services initialised.
AdminInit ==
  /\ auth = TRUE
  /\ adminEmail = "a@x"
  /\ now = StartMs
  /\ users = [u \in Uids |->
       [exists |-> TRUE, email |-> UserEmail[u], admin |-> UserClaim[u], disabled |-> FALSE]]
  /\ admins = [u \in Uids |-> [exists |-> UserClaim[u], isActive |-> TRUE]]
  /\ areq = [r \in AReqIds |-> Fresh]
  /\ NoContent

AdminNext ==
  \E r \in AReqIds :
    \/ MwVerify(r)
    \/ MwGetUser(r)
    \/ DispatchTo(r, AdminRoutes)
    \/ UpdateAdminLoad(r)
    \/ UpdateAdminName(r)
    \/ UpdateAdminFlag(r)
    \/ UpdateAdminStore(r)
    \/ DeleteAdminLoad(r)
    \/ DeleteAdminUser(r)
    \/ DeleteAdminDoc(r)

AdminSpec == AdminInit /\ [][AdminNext]_vars

\* PUT /api/admin/users/:uid behind authMiddleware, requests overlapping;
\* no admin is deleted, so no call of the handler fails.
UpdateAdminNext ==
  \E r \in AReqIds :
    \/ MwVerify(r)
    \/ MwGetUser(r)
    \/ DispatchTo(r, {"updateAdmin"})
    \/ UpdateAdminLoad(r)
    \/ UpdateAdminName(r)
    \/ UpdateAdminFlag(r)
    \/ UpdateAdminStore(r)

UpdateAdminSpec == AdminInit /\ [][UpdateAdminNext]_vars

\* Admin creation: POST /api/admin/users behind authMiddleware.  The identity
\* provider may or may not hold a record for c@x, which is nobody's admin.
CreateAdminInit ==
  /\ auth = TRUE
  /\ adminEmail = "a@x"
  /\ now = StartMs
  /\ \E there \in BOOLEAN :
       users = [u \in Uids |->
         [exists |-> (u # "u3" \/ there), email |-> UserEmail[u],
          admin |-> UserClaim[u], disabled |-> FALSE]]
  /\ admins = [u \in Uids |-> [exists |-> UserClaim[u], isActive |-> TRUE]]
  /\ areq = [r \in AReqIds |-> Fresh]
  /\ NoContent

CreateAdminNext ==
  \E r \in AReqIds :
    \/ MwVerify(r)
    \/ MwGetUser(r)
    \/ DispatchTo(r, {"createAdmin"})
    \/ CreateAdminLoad(r)
    \/ CreateAdminUser(r)
    \/ CreateAdminClaims(r)
    \/ CreateAdminDoc(r)

CreateAdminSpec == CreateAdminInit /\ [][CreateAdminNext]_vars

\* Products are written and read by requests that interleave freely; the
\* clock stands still while they do, at either of two readings.
ContentInit ==
  /\ auth \in BOOLEAN
  /\ now \in {StartMs, StartMs + TickMs}
  /\ AuthAtRest
  /\ products = Empty
  /\ posts = Empty
  /\ categories = Added(Empty, CategoryDoc([NoBody EXCEPT !.name = NameA], SlugA))
  /\ clicks = <<>>
  /\ deals = Empty
  /\ creq = [r \in CReqIds |-> Idle]

ContentNext ==
  \E r \in CReqIds :
       \/ CreateCheck(r, "product", Cardinality(DOMAIN products) + Cardinality(Pending) < MaxProducts)
       \/ CreateAdd(r)
       \/ UpdateLoad(r)
       \/ UpdateCheck(r)
       \/ UpdateWrite(r)
       \/ ListProducts(r)
       \/ GetProductBySlug(r)
       \/ CategoryFind(r)
       \/ CategoryProducts(r)
       \/ RedirectFind(r)
       \/ RedirectClick(r)
       \/ RedirectCount(r)

ContentSpec == ContentInit /\ [][ContentNext]_vars

\* Redirects and analytics run one at a time on a store no admin request
\* writes: product 1 is published with an affiliate link, product 2 is any
\* product, with the same slug or another.
ClickProducts ==
  {Added(Added(Empty, [ProductDoc([NoBody EXCEPT !.status = "published",
                                                  !.category = NameA,
                                                  !.affiliateLink = LinkOk], SlugA)
                         EXCEPT !.clickCount = c]),
         ProductDoc([NoBody EXCEPT !.status = st, !.category = NameA,
                                   !.affiliateLink = l], s)) :
     c \in {0, 1}, st \in {"draft", "published"}, l \in {<<>>, LinkOk},
     s \in {SlugA, SlugLater}}

ClickInit ==
  /\ auth = TRUE
  /\ now = StartMs
  /\ AuthAtRest
  /\ products \in ClickProducts
  /\ posts = Empty
  /\ categories = Empty
  /\ clicks = <<>>
  /\ deals = Empty
  /\ creq = [r \in CReqIds |-> Idle]

ClickNext ==
  \/ RedirectFindUpTo(1, MaxSeqClicks)
  \/ RedirectClick(1)
  \/ RedirectCount(1)
  \/ AnalyticsFind(1)
  \/ AnalyticsClicks(1)

ClickSpec == ClickInit /\ [][ClickNext]_vars

\* Redirects that overlap while the clock advances, on products no redirect
\* has been followed for yet.
RedirectInit ==
  /\ ClickInit
  /\ \A i \in DOMAIN products : products[i].clickCount = 0

RedirectNext ==
  \/ Tick
  \/ \E r \in CReqIds :
       \/ RedirectFindUpTo(r, MaxSeqClicks)
       \/ RedirectClick(r)
       \/ RedirectCount(r)

RedirectSpec == RedirectInit /\ [][RedirectNext]_vars

\* Creates run one at a time: a single request is in progress at any moment.
SeqInit ==
  /\ auth = TRUE
  /\ now = StartMs
  /\ AuthAtRest
  /\ NoContent

SeqNext ==
  \/ Tick
  \/ \E kind \in Kinds : CreateCheck(1, kind, Stored < MaxSeqDocs)
  \/ CreateName(1)
  \/ CreateAdd(1)

SeqSpec == SeqInit /\ [][SeqNext]_vars

\* The deal routes, one request at a time.
DealNext ==
  \/ CreateDeal(1)
  \/ UpdateDealLoad(1)
  \/ UpdateDealWrite(1)

DealSpec == SeqInit /\ [][DealNext]_vars

\* The deal routes and the public list of active deals, one request at a
\* time.
ActiveDealsNext ==
  \/ CreateDeal(1)
  \/ UpdateDealLoad(1)
  \/ UpdateDealWrite(1)
  \/ GetActiveDeals(1)

ActiveDealsSpec == SeqInit /\ [][ActiveDealsNext]_vars

\* Creates of products and deals and the reads of single entities, one
\* request at a time.
RoundTripNext ==
  \/ CreateCheck(1, "product", Stored < MaxSeqDocs)
  \/ CreateAdd(1)
  \/ GetProductBySlugIn(1, ReadSlugs \cup {products[i].slug : i \in DOMAIN products})
  \/ CreateDeal(1)
  \/ GetDealById(1)

RoundTripSpec == SeqInit /\ [][RoundTripNext]_vars

\* Creates with names and slugs of every shape, one request at a time.
SlugNext ==
  \/ Tick
  \/ \E kind \in Kinds : CreateCheckFrom(1, kind, Stored < MaxSeqDocs, SlugBodies(kind))
  \/ CreateName(1)
  \/ CreateAdd(1)

SlugSpec == SeqInit /\ [][SlugNext]_vars

\* Products and posts created, updated and read while the clock advances,
\* one request at a time.
StampNext ==
  \/ Tick
  \/ \E kind \in {"product", "post"} : CreateCheck(1, kind, Stored < MaxProducts)
  \/ CreateAdd(1)
  \/ UpdateLoad(1)
  \/ UpdateCheck(1)
  \/ UpdateWrite(1)
  \/ UpdatePostLoad(1)
  \/ UpdatePostCheck(1)
  \/ UpdatePostWrite(1)
  \/ ListProducts(1)
  \/ GetProductBySlugIn(1, ReadSlugs \cup {products[i].slug : i \in DOMAIN products})
  \/ ListPosts(1)
  \/ GetPostBySlug(1)

StampSpec == SeqInit /\ [][StampNext]_vars

\* Products created, updated in their affiliate link and redirected to, one
\* request at a time.
LinkNext ==
  \/ CreateCheck(1, "product", Stored < MaxProducts)
  \/ CreateAdd(1)
  \/ UpdateLoadFrom(1, LinkUpdateBodies)
  \/ UpdateWrite(1)
  \/ RedirectFindUpTo(1, MaxSeqClicks)
  \/ RedirectClick(1)
  \/ RedirectCount(1)

LinkSpec == SeqInit /\ [][LinkNext]_vars

\* Every operation on the catalogue, one request at a time.
OpsNext ==
  \/ \E kind \in {"product", "category"} : CreateCheck(1, kind, Stored < MaxSeqDocs)
  \/ CreateName(1)
  \/ CreateAdd(1)
  \/ UpdateLoad(1)
  \/ UpdateCheck(1)
  \/ UpdateWrite(1)
  \/ DeleteProductLoad(1)
  \/ DeleteProductWrite(1)
  \/ DeleteCategoryLoad(1)
  \/ DeleteCategoryCheck(1)
  \/ DeleteCategoryWrite(1)
  \/ RedirectFindUpTo(1, MaxSeqClicks)
  \/ RedirectClick(1)
  \/ RedirectCount(1)
  \/ AnalyticsFind(1)
  \/ AnalyticsClicks(1)
  \/ CategoryGet(1)
  \/ \E admin \in BOOLEAN : CategoriesList(1, admin)
  \/ CategoriesCount(1)

OpsSpec == SeqInit /\ [][OpsNext]_vars

\* deleteCategory against product creates, interleaving freely
RaceNext ==
  \E r \in CReqIds :
    \/ CreateCheck(r, "product", Cardinality(DOMAIN products) + Cardinality(Pending) < MaxProducts)
    \/ CreateAdd(r)
    \/ DeleteCategoryLoad(r)
    \/ DeleteCategoryCheck(r)
    \/ DeleteCategoryWrite(r)

RaceSpec == ContentInit /\ [][RaceNext]_vars

\* =================================================== properties: AuthSpec
\* What the bearer token of slot r's request is, and whether slot r holds a
\* request that authMiddleware itself answered.
TokenOf(r) == BearerToken(areq[r].header)
AnsweredByMiddleware(r) == areq[r].route = "" /\ areq[r].status # 0
EligibleClaims(dt) == dt.admin \/ (adminEmail # "" /\ dt.email = adminEmail)
NotBearer(h) == h = <<>> \/ Len(h) < 2 \/ h[1].raw # "Bearer"

\* C1: next() is called only for a resolved identity that carries the admin
\* flag or whose email equals ADMIN_EMAIL; a request whose token verifies
\* (provider-signed, unexpired) but has neither is answered 403 and never
\* reaches the handler.
C1_AdminGate ==
  \A r \in AReqIds :
    /\ areq[r].nextCalled => EligibleClaims(areq[r].user)
    /\ ( /\ AnsweredByMiddleware(r) /\ auth /\ ~areq[r].fault
         /\ ~NotBearer(areq[r].header)
         /\ TokenOf(r).sig = "google" /\ TokenOf(r).exp > NowSec
         /\ ~EligibleClaims(TokenOf(r)) )
       => (areq[r].status = 403 /\ ~areq[r].nextCalled)

\* One request admitted, another with a verifying non-admin token answered
\* 403.
C1_Witness ==
  \E r, q \in AReqIds :
    /\ areq[r].pc = "next" /\ TokenOf(r).sig = "google"
    /\ AnsweredByMiddleware(q) /\ areq[q].status = 403
    /\ TokenOf(q).sig = "google" /\ TokenOf(q).exp > NowSec

\* C2: a token nobody signed is never admitted, whatever uid its payload
\* names.
C2_UnverifiedNeverAdmitted ==
  \A r \in AReqIds : areq[r].pc = "next" => TokenOf(r).sig # "none"

\* C3: the custom token answered by login, presented as the Bearer token,
\* does not get the request to its handler.
C3_ExchangeTokenRejected ==
  \A l, r \in AReqIds :
    ( /\ areq[l].route = "login" /\ areq[l].status = 200
      /\ areq[r].header = <<Str("Bearer"), areq[l].customToken>> )
    => ~areq[r].nextCalled

\* C4: with the provider initialised, a request without an Authorization
\* header, or with one that does not start with 'Bearer ', is answered 401,
\* next() is not called and req.user is not set.
C4_MissingBearer401 ==
  auth =>
    \A r \in AReqIds :
      ( \/ (areq[r].header # <<>> /\ NotBearer(areq[r].header))
        \/ (areq[r].header = <<>> /\ AnsweredByMiddleware(r)) )
      => ( /\ areq[r].pc = "done" /\ areq[r].status = 401
           /\ ~areq[r].nextCalled /\ ~areq[r].hasUser )

\* A 'Basic' header carrying a valid admin ID token, answered 401, and a
\* request with no header at all, answered 401.
C4_Witness ==
  \E r, q \in AReqIds :
    /\ areq[r].header = <<Str("Basic"), IdToken("u1", ExpSoon)>> /\ areq[r].status = 401
    /\ areq[q].header = <<>> /\ AnsweredByMiddleware(q) /\ areq[q].status = 401

\* C5: whenever authMiddleware answers a request whose bearer token (of any
\* kind, of any user) was expired when the request arrived, with the
\* provider initialised and reachable, the answer is the Token-Expired error.
ExpiredNow(tok) == tok.raw = "jwt" /\ tok.exp # 0 /\ tok.exp < NowSec
C5_ExpiredIsTokenExpired ==
  [][\A r \in AReqIds :
       ( /\ areq[r].pc = "done" /\ areq'[r] # areq[r]
         /\ areq'[r].route = "" /\ areq'[r].status # 0
         /\ auth /\ ~areq'[r].fault /\ ~NotBearer(areq'[r].header)
         /\ ExpiredNow(BearerToken(areq'[r].header)) )
       => areq'[r].error = "Token Expired"]_vars

\* C6: with the provider not initialised every request behind authMiddleware
\* is answered 503, and next() is never called.
C6_Uninitialised503 ==
  ~auth =>
    \A r \in AReqIds :
      (areq[r] # Fresh /\ areq[r].route # "login")
      => (areq[r].pc = "done" /\ areq[r].status = 503 /\ ~areq[r].nextCalled)

\* Uninitialised provider, a request with a valid admin ID token and one with
\* no header, both answered 503.
C6_Witness ==
  /\ ~auth
  /\ \E r, q \in AReqIds :
       /\ areq[r].header = <<Str("Bearer"), IdToken("u1", ExpSoon)>> /\ areq[r].status = 503
       /\ areq[q].header = <<>> /\ areq[q].status = 503

\* C10: a request that arrived after updateAdmin deactivated an admin (and
\* before any reactivation), bearing a token the provider or the server
\* issued to that admin, is not admitted.
C10_InactiveAdminRejected ==
  \A r \in AReqIds :
    areq[r].pc = "next" =>
      ~( /\ TokenOf(r).sig \in {"google", "service"}
         /\ areq[r].user.uid \in areq[r].inactiveSince )

\* ================================================ properties: ContentSpec
\* C7: in every reachable state, whatever the interleaving of admin create
\* and update requests on products, no two stored products have the same
\* slug.
C7_ProductSlugsUnique ==
  \A i \in DOMAIN products : \A j \in DOMAIN products :
    i # j => products[i].slug # products[j].slug

PublicOps == {"list", "bySlug", "byCategory", "redirect"}

\* C9: every product a public endpoint (product list, product by slug,
\* products of a category) returns, and every product a redirect uses as its
\* target, has status 'published' in the document the endpoint read; a
\* product that is not published is never returned or redirected to.
C9_PublicOnlyPublished ==
  \A r \in CReqIds :
    creq[r].op \in PublicOps =>
      \A product \in creq[r].data : product.status = "published"

\* C9 happens: while a draft product is stored, the product list answered
\* with published products only, a redirect has been sent, and a lookup of
\* the draft's slug was answered 404.
C9_Witness ==
  \E i \in DOMAIN products :
    /\ products[i].status = "draft"
    /\ \E r \in CReqIds :
         /\ creq[r].op \in {"list", "byCategory"}
         /\ creq[r].code = 200
         /\ creq[r].data # {}
         /\ \A v \in creq[r].data : v.id # i
    /\ \E r \in CReqIds :
         /\ creq[r].op \in {"bySlug", "redirect"}
         /\ creq[r].code = 404
         /\ creq[r].slug = products[i].slug

\* ==================================================== properties: SeqSpec
Times == {StartMs + k * TickMs : k \in 0 .. MaxTicks}

\* the slugs of the documents of a collection
Slugs(coll) == {coll[i].slug : i \in DOMAIN coll}

\* a create that lands `new` from `old` for a body whose initial slug is
\* taken stores the timestamped slug, and that slug is not one of `old`
Disambiguates(old, new, base) ==
  \A i \in DOMAIN new \ DOMAIN old :
    base \in Slugs(old) =>
      /\ \E t \in Times : t <= now /\ new[i].slug = WithTimestamp(base, t)
      /\ new[i].slug \notin Slugs(old)

\* C8: when creates run one at a time, a create (product, post or category)
\* whose provided or derived slug equals the slug of an existing entity of
\* the same type stores the new entity under the slug suffixed with the
\* current timestamp, and the stored slug differs from the slug of every
\* entity of that type already stored.
C8_CollidingCreateDisambiguated ==
  [][ LET base == InitialSlug(creq[1].kind, creq[1].body)
      IN /\ Disambiguates(products, products', base)
         /\ Disambiguates(posts, posts', base)
         /\ Disambiguates(categories, categories', base) ]_vars

\* ============================================ properties: AuthSpec, login
\* the logins that were answered with a token
LoggedIn == {r \in AReqIds : areq[r].route = "login" /\ areq[r].status = 200}

\* C11: login issues a token only when the supplied password is the
\* account's password, so of two logins that differ only in the password,
\* one correct and one wrong, at most one succeeds.
C11_LoginChecksPassword ==
  /\ \A r \in LoggedIn :
       \E u \in UsersByEmail(areq[r].email) : areq[r].password = UserPassword[u]
  /\ \A r \in LoggedIn : \A q \in LoggedIn :
       areq[r].email = areq[q].email => areq[r].password = areq[q].password

\* =================================================== properties: AdminSpec
\* a request by an admin that would delete or deactivate that same admin
OnSelf(q) ==
  /\ q.hasUser
  /\ q.uidParam = q.user.uid
  /\ \/ q.route = "deleteAdmin"
     \/ q.route = "updateAdmin" /\ q.bodyActive \in {"false", "null"}

\* C12: no request made by an admin deletes or deactivates that same admin:
\* a deleteAdmin, or an updateAdmin whose payload would make the account
\* inactive, that targets the acting admin's own uid is rejected and leaves
\* the identity record and the admin profile of that uid unchanged.
C12_NoSelfLockout ==
  [][ \A r \in AReqIds :
        (areq'[r].pc # areq[r].pc /\ OnSelf(areq'[r])) =>
          LET uid == areq'[r].uidParam
          IN /\ users'[uid] = users[uid]
             /\ admins'[uid] = admins[uid]
             /\ areq'[r].pc = "done" => areq'[r].status # 200 ]_vars

\* =================================================== properties: ClickSpec
\* C13: with redirects one at a time and no admin write to the product, a
\* redirect that finds a published product with an affiliate link is
\* answered 302 to that link and adds one to the product's click count (404
\* only when no published product has the slug), and the analytics of a
\* product report its click count: k redirects after a prior value p,
\* totalClicks is p + k.
C13_RedirectsCounted ==
  /\ [][ \A r \in CReqIds :
           /\ (creq[r].pc = "r_count" /\ creq'[r].pc = "done") =>
                LET i == creq[r].id
                IN /\ creq'[r].code = 302
                   /\ creq'[r].location = products[i].affiliateLink
                   /\ products'[i].clickCount = products[i].clickCount + 1
           /\ (creq[r].pc = "done" /\ creq'[r].op = "redirect" /\ creq'[r].code = 404) =>
                \A i \in DOMAIN products :
                  ~(products[i].slug = creq'[r].slug /\ products[i].status = "published") ]_vars
  /\ [](\A r \in CReqIds :
          (creq[r].op = "analytics" /\ creq[r].code = 200) =>
            /\ creq[r].clickCount = products[creq[r].id].clickCount
            /\ \E p \in {0, 1} : creq[r].clickCount = p + Len(ClicksOf(creq[r].id)))

\* C13 happens: two redirects to one product have been answered and its
\* analytics then report two clicks more than before.
C13_Witness ==
  \E r \in CReqIds :
    /\ creq[r].op = "analytics"
    /\ creq[r].code = 200
    /\ Len(ClicksOf(creq[r].id)) = 2
    /\ creq[r].clickCount >= 2


\* ===================================================== properties: OpsSpec
\* C14: click events are append-only. No step of any operation (redirect,
\* analytics, product create, update and delete, category create and delete)
\* changes or removes a stored click event: the stored events stay a prefix of
\* the events stored after the step.
C14_ClicksAppendOnly ==
  [][ /\ Len(clicks') >= Len(clicks)
      /\ SubSeq(clicks', 1, Len(clicks)) = clicks ]_vars

\* a click is stored, two events are kept side by side, and the product of
\* the first one has since been deleted
C14_Witness ==
  /\ Len(clicks) = MaxSeqClicks
  /\ clicks[1].productId \notin DOMAIN products
  /\ creq[1].op = "deleteProduct"
  /\ creq[1].code = 200

DeleteCategoryDone(r) ==
  /\ creq[r].pc \in {"dc_check", "dc_write"}
  /\ creq'[r].pc = "done"

\* deleteCategory, requests one at a time, answers as `code` says when a
\* stored product (draft or published) has the category's name as its
\* category, and leaves the category stored; otherwise it answers 200 and the
\* category is gone.
DeleteCategoryAnswers(code) ==
  \A r \in CReqIds :
    DeleteCategoryDone(r) =>
      LET id == creq[r].id IN
        IF \E i \in DOMAIN products : products[i].category = categories[id].name
          THEN /\ creq'[r].code = code
               /\ creq'[r].error = "Cannot delete category with existing products"
               /\ categories' = categories
          ELSE /\ creq'[r].code = 200
               /\ id \notin DOMAIN categories'

C16_NeverRemovedWhileReferenced ==
  [][ \A id \in DOMAIN categories \ DOMAIN categories' :
        \A i \in DOMAIN products : products[i].category # categories[id].name ]_vars


\* the categories a completed request returned
ReturnsCategories(q) ==
  /\ q.pc = "done"
  /\ q.kind = "category"
  /\ q.code \in {200, 201}
  /\ q.op \in {"create", "getCategory", "listCategories", "listAllCategories"}

\* C17: whenever a category is returned (public list, public get by slug,
\* admin list, create response), its productCount is the number of stored
\* products whose category equals that category's name at the moment of the
\* response.
C17_ProductCountIsStoredCount ==
  [][ \A r \in CReqIds :
        (creq[r].pc # "done" /\ ReturnsCategories(creq'[r])) =>
          \A d \in creq'[r].data :
            d.productCount =
              Cardinality({i \in DOMAIN products' : products'[i].category = d.name}) ]_vars


\* ==================================================== properties: DealSpec
\* x is original's discount to discounted in percent, rounded to the nearest
\* integer, halves up
IsRoundedPercentage(x, original, discounted) ==
  /\ 2 * original * x <= 200 * (original - discounted) + original
  /\ 200 * (original - discounted) + original < 2 * original * (x + 1)

\* C18: after any create or update of a deal whose payload supplies both
\* originalPrice (not zero) and discountedPrice, the stored discountPercentage
\* is round((originalPrice - discountedPrice) / originalPrice * 100), whatever
\* discountPercentage the client sent.
C18_PercentageRecomputed ==
  [][ \A r \in CReqIds :
        LET q == creq'[r] IN
          ( /\ creq[r].pc # "done" \/ q.op = "createDeal"
            /\ q # creq[r]
            /\ q.pc = "done"
            /\ q.op \in {"createDeal", "updateDeal"}
            /\ q.code \in {200, 201}
            /\ q.body.originalPrice # <<>>
            /\ q.body.discountedPrice # <<>>
            /\ q.body.originalPrice[1] > 0 )
          => IsRoundedPercentage(deals'[q.id].discountPercentage,
                                 q.body.originalPrice[1], q.body.discountedPrice[1]) ]_vars


\* =============================================== properties: RoundTripSpec
\* the entity a read returned
Returned(q) == CHOOSE e \in q.data : TRUE

SlugShared(id) == \E j \in DOMAIN products \ {id} : products[j].slug = products[id].slug

\* the read of the slot directly follows a successful create of kind `kind`
ReadAfterCreate(r, kind, op) ==
  /\ creq[r].pc = "done"
  /\ creq[r].op = IF kind = "deal" THEN "createDeal" ELSE "create"
  /\ creq[r].kind = kind
  /\ creq[r].code = 201
  /\ creq'[r].op = op

UrlSafeChars ==
  {"a", "b", "c", "d", "e", "f", "g", "h", "i", "j", "k", "l", "m", "n", "o", "p", "q",
   "r", "s", "t", "u", "v", "w", "x", "y", "z", "-",
   "0", "1", "2", "3", "4", "5", "6", "7", "8", "9"}

UrlSafe(slug) ==
  /\ \A i \in 1 .. Len(slug) : slug[i] \in UrlSafeChars
  /\ slug # <<>> => slug[1] # "-" /\ slug[Len(slug)] # "-"

\* C20: every product, post or category returned by a successful create has
\* a slug made only of a-z, 0-9 and '-', with no leading or trailing hyphen,
\* whether the client supplied the slug or it was derived from the name or
\* title.
C20_CreatedSlugUrlSafe ==
  \A r \in CReqIds :
    (creq[r].op = "create" /\ creq[r].code = 201) => UrlSafe(creq[r].slug)


\* =================================================== properties: StampSpec
Entries(kind) == IF kind = "product" THEN products ELSE posts

\* the step is the answer of a successful create of a product or a post
CreateAnswered(r) ==
  /\ creq[r].pc = "c_add"
  /\ creq'[r].op = "create"
  /\ creq'[r].kind \in {"product", "post"}
  /\ creq'[r].code = 201

\* the step is the answer of a public list or get by slug
PublicReadAnswered(r) ==
  /\ creq[r].pc = "done"
  /\ creq'[r] # creq[r]
  /\ creq'[r].op \in {"list", "bySlug"}
  /\ creq'[r].kind \in {"product", "post"}

\* C21: a successful product or post create is answered 201 and stores and
\* returns an entity whose status is 'draft' when the payload gives no status
\* and whose created and updated timestamps are equal; the public list and
\* the public get by slug return only entities stored as published, and only
\* the write of an update that carries a status changes the status of a
\* stored entity, so the entity is not returned until such an update has
\* published it.
C21_CreatedAsDraft ==
  [][ /\ \A r \in CReqIds :
           /\ CreateAnswered(r) =>
                LET q == creq'[r]
                    e == CHOOSE x \in q.data : TRUE
                    docs == IF q.kind = "product" THEN products' ELSE posts'
                IN /\ Cardinality(q.data) = 1
                   /\ e.id \in DOMAIN docs \ DOMAIN Entries(q.kind)
                   /\ e = Entity(e.id, docs[e.id])
                   /\ creq[r].body.status = "" => e.status = "draft"
                   /\ e.createdAt = e.updatedAt
           /\ PublicReadAnswered(r) =>
                \A e \in creq'[r].data :
                  /\ e.id \in DOMAIN Entries(creq'[r].kind)
                  /\ Entries(creq'[r].kind)[e.id].status = "published"
      /\ \A kind \in {"product", "post"} :
           LET before == Entries(kind)
               after == IF kind = "product" THEN products' ELSE posts'
           IN \A i \in DOMAIN before \cap DOMAIN after :
                after[i].status # before[i].status =>
                  \E r \in CReqIds :
                    /\ creq[r].op = "update"
                    /\ creq[r].kind = kind
                    /\ creq[r].id = i
                    /\ creq[r].body.status = after[i].status ]_vars

\* a post, created as a draft, was published by a later update and is
\* returned by the public get by slug
C21_Witness ==
  /\ creq[1].op = "bySlug"
  /\ creq[1].kind = "post"
  /\ creq[1].code = 200
  /\ \E e \in creq[1].data :
       /\ e.id \in DOMAIN posts
       /\ posts[e.id].createdAt < posts[e.id].updatedAt
       /\ posts[e.id].status = "published"


\* ============================================ properties: CreateAdminSpec
\* C22: a createAdmin whose email already belongs to a user of the identity
\* provider, admin or not, is answered 409 in the step that looks the email
\* up, and that step creates no identity record, sets no claim and writes no
\* admin profile; a request answered 409 never got past that step.
C22_DuplicateEmail409 ==
  [][\A r \in AReqIds :
       /\ (/\ areq[r].pc = "createAdmin"
           /\ areq'[r].pc # "createAdmin"
           /\ areq'[r].email # ""
           /\ areq'[r].password # ""
           /\ \E u \in Uids : users[u].exists /\ users[u].email = areq'[r].email)
          => /\ areq'[r].pc = "done"
             /\ areq'[r].status = 409
             /\ users' = users
             /\ admins' = admins
       /\ (areq'[r].route = "createAdmin" /\ areq'[r].status = 409 /\ areq[r].status # 409)
          => /\ areq[r].pc = "createAdmin"
             /\ users' = users
             /\ admins' = admins]_vars

\* A createAdmin for c@x was answered 409 because a user who is not an admin
\* holds that email, and that user is still no admin.
C22_Witness ==
  \E r \in AReqIds :
    /\ areq[r].route = "createAdmin"
    /\ areq[r].status = 409
    /\ areq[r].email = "c@x"
    /\ users["u3"].exists
    /\ ~users["u3"].admin
    /\ ~admins["u3"].exists

\* ================================================ properties: ContentSpec
\* C23: while the document store is not configured, every content request
\* that has been answered (product list, product by slug, products of a
\* category, redirect) was answered 503, never 500.
C23_StoreUnavailable503 ==
  ~auth => \A r \in CReqIds : creq[r].code \in {0, 503}

\* ================================================== properties: StampSpec
\* The step in which slot r's updateProduct or updatePost is answered with
\* the given code.
UpdateAnswered(r, code) ==
  /\ creq'[r] # creq[r]
  /\ creq'[r].op = "update"
  /\ creq'[r].code = code

\* C24: an updateProduct or updatePost that is answered 404 or 400 has
\* written nothing: from its first step to its answer every stored product
\* and post, updated timestamps included, stays as it was.  It is answered
\* 404 only for an id that is not stored and 'Slug already exists' only when
\* a different entity of the type holds the slug; a slug held by a different
\* entity is always answered so.
C24_RejectedUpdateWritesNothing ==
  [][\A r \in CReqIds :
       /\ (creq'[r] # creq[r] /\ creq'[r].op = "update" /\ creq'[r].code # 200)
            => (products' = products /\ posts' = posts)
       /\ UpdateAnswered(r, 404) => creq[r].pc = "done"
       /\ (UpdateAnswered(r, 400) /\ creq'[r].error = "Slug already exists")
            => /\ creq[r].pc \in {"u_check", "up_check"}
               /\ \E j \in DOMAIN Entries(creq[r].kind) \ {creq[r].id} :
                    Entries(creq[r].kind)[j].slug = creq[r].body.slug
       /\ (/\ creq[r].pc \in {"u_check", "up_check"}
           /\ creq'[r] # creq[r]
           /\ \E j \in DOMAIN Entries(creq[r].kind) \ {creq[r].id} :
                Entries(creq[r].kind)[j].slug = creq[r].body.slug)
            => (UpdateAnswered(r, 400) /\ creq'[r].error = "Slug already exists")]_vars

\* An update that would take the slug of another stored entity has been
\* answered 'Slug already exists' at a later time than the last write of
\* either entity.
C24_Witness ==
  /\ creq[1].op = "update"
  /\ creq[1].code = 400
  /\ creq[1].error = "Slug already exists"
  /\ \E kind \in {"product", "post"} :
       /\ creq[1].kind = kind
       /\ Cardinality(DOMAIN Entries(kind)) = 2
       /\ \A i \in DOMAIN Entries(kind) : Entries(kind)[i].updatedAt < now

\* =============================================== properties: RedirectSpec
\* The step in which slot r's redirect writes the product and answers 302.
RedirectAnswered(r) == creq[r].pc = "r_count" /\ creq'[r].code = 302

\* Product i is after the step what it was before it, up to the given fields.
SameBut(i, fields) ==
  /\ i \in DOMAIN products'
  /\ \A f \in DOMAIN products[i] \ fields : products'[i][f] = products[i][f]

\* C25 (as amended): a successful redirect changes, on the product document,
\* only the click counter, the last-click timestamp and the updated
\* timestamp; every other field of it and every other product stay as they
\* were, and the steps of a redirect before its write change no product.
C25_RedirectFrame ==
  [][\A r \in CReqIds :
       /\ RedirectAnswered(r) =>
            /\ DOMAIN products' = DOMAIN products
            /\ SameBut(creq[r].id, {"clickCount", "lastClickedAt", "updatedAt"})
            /\ \A i \in DOMAIN products \ {creq[r].id} : SameBut(i, {})
       /\ (creq'[r] # creq[r] /\ creq[r].pc # "r_count") => products' = products]_vars

\* C25 as stated: the redirect's write changes only the click counter and
\* the last-click timestamp.
C25_RedirectFrameTwoFields ==
  [][\A r \in CReqIds :
       RedirectAnswered(r) =>
         /\ DOMAIN products' = DOMAIN products
         /\ SameBut(creq[r].id, {"clickCount", "lastClickedAt"})
         /\ \A i \in DOMAIN products \ {creq[r].id} : SameBut(i, {})]_vars

\* A redirect was answered 302 at a later time than the product was last
\* written by an admin: its counter and its timestamps moved, and another
\* product is stored next to it.
C25_Witness ==
  \E r \in CReqIds : \E v \in creq[r].data :
    /\ creq[r].code = 302
    /\ v.id \in DOMAIN products
    /\ products[v.id].clickCount = 1
    /\ products[v.id].lastClickedAt = now
    /\ products[v.id].updatedAt > products[v.id].createdAt
    /\ Cardinality(DOMAIN products) = 2

\* C27: whenever no redirect is in flight, each product's click counter is
\* the number of click events stored for it (no admin request writes the
\* counter here, and every counter starts at 0 with no event stored).
C27_CounterMatchesEvents ==
  (\A r \in CReqIds : creq[r].pc = "done")
    => \A i \in DOMAIN products : products[i].clickCount = Len(ClicksOf(i))

\* ============================================ properties: ActiveDealsSpec
\* C26: the public list of active deals, once answered, holds every stored
\* deal whose active flag is true (no deal is deleted or made inactive here,
\* so every deal a createDeal stored is one of them).
C26_ActiveDealsListed ==
  \A r \in CReqIds :
    (creq[r].op = "activeDeals" /\ creq[r].code = 200)
      => {d.id : d \in creq[r].data} = {i \in DOMAIN deals : deals[i].isActive}

\* ============================================ properties: UpdateAdminSpec
\* C28: whenever no request is in flight, the active flag of each admin
\* profile is the negation of the disabled flag of the identity record with
\* the same uid.
C28_ActiveIsNotDisabled ==
  (\A r \in AReqIds : areq[r].pc = "done")
    => \A u \in Uids :
         (admins[u].exists /\ users[u].exists) => (admins[u].isActive = ~users[u].disabled)

\* ==================================================== properties: LinkSpec
\* C29: every stored product has an affiliate link that is not empty and is
\* an absolute URL, and no redirect is answered 400.
C29_AffiliateLinkValid ==
  /\ \A i \in DOMAIN products :
       products[i].affiliateLink # <<>> /\ isValidUrl(products[i].affiliateLink)
  /\ \A r \in CReqIds : ~(creq[r].op = "redirect" /\ creq[r].code = 400)

\* ===================================================== properties: MwSpec
\* C30: authMiddleware, entered directly or through optionalAuthMiddleware,
\* ends in exactly one of two ways.  While it waits for the identity
\* provider it has neither answered nor called next; a request it answered
\* never had next called; a request it passed on had no response from it
\* (a response comes only from the handler, after the route was entered);
\* and no handler runs without next having been called.  Each step of the
\* middleware decides one request once: an answer or a call of next is
\* never taken back or repeated by a later step of the middleware.
C30_ResponseXorNext ==
  [][\A r \in AReqIds :
       LET q == areq'[r]
       IN /\ q.pc = "getUser" => (~q.nextCalled /\ q.status = 0)
          /\ (q.pc = "done" /\ q.route = "" /\ q # Fresh) => (q.status # 0 /\ ~q.nextCalled)
          /\ q.pc = "next" => (q.nextCalled /\ q.status = 0 /\ q.route = "")
          /\ q.route # "" => q.nextCalled
          /\ (q.nextCalled /\ q.status # 0) => (q.route # "" /\ q.pc = "done")
          /\ (areq[r].pc \in {"next", "verify", "deals"} /\ q # areq[r])
               => (q.nextCalled /\ q.pc \in {"verify", "deals", "done"} /\ q.route # "")]_vars

\* One request was answered 403 by the middleware while another, sent to
\* the deals route without a header, reached the handler with no identity.
C30_Witness ==
  \E r1, r2 \in AReqIds :
    /\ areq[r1].pc = "done"
    /\ areq[r1].route = ""
    /\ areq[r1].status = 403
    /\ ~areq[r1].nextCalled
    /\ areq[r2].route = "deals"
    /\ areq[r2].nextCalled
    /\ ~areq[r2].hasUser
    /\ areq[r2].status = 200

====
